---- MODULE Spec2Model ----
(***************************************************************************)
(* A model of the narrative detection engine (app/analysis/engine.py), the *)
(* snapshot store and delta calculator (app/analysis/snapshots.py) and the *)
(* pipeline entry point (app/main.py).                                     *)
(*                                                                         *)
(* Conventions.  Scores are one-decimal numbers (the code rounds them with *)
(* round(x, 1)); the model holds them in tenths, so 50.0 is 500 and 100.0  *)
(* is 1000.  Python strings are sequences of one-character strings.        *)
(***************************************************************************)
EXTENDS Integers, Sequences, FiniteSets, TLC

VARIABLES
    values,        \* _normalize_scores: the argument
    normalized,    \* _normalize_scores: [done, out], the returned list
    current,       \* compute_deltas: the argument `current`
    previous,      \* compute_deltas: the argument `previous`
    deltas,        \* compute_deltas: [done, raised, out]
    all_signals,   \* discover_narratives: the argument all_signals
    text_corpus,   \* discover_narratives: the argument text_corpus
    theme_signals, \* discover_narratives: its local theme_signals after phase 1
    narratives,    \* discover_narratives: [done, out], the returned list
    clock,         \* the UTC wall clock, in seconds
    ticks,         \* how often the clock has advanced
    files,         \* SNAPSHOT_DIR: second of the file name |-> content of the file
    pc,            \* run_pipeline: where each call is, "idle" or "collecting"
    now,           \* run_pipeline: the local `now` of each call
    _cache,        \* main.py: <<>> for {} or <<result>>
    _cache_time,   \* main.py: None or the `now` of the execution that filled _cache
    runs,          \* history: the second in which each execution saved its snapshot
    last,          \* history: how the most recent call of run_pipeline ended
    themes,        \* scoring loop: the signal lists of two themes
    raw_scores,    \* scoring loop: [done, out], the raw_score of each of the two
    signal_counts, \* scoring loop: two values of len(signals)
    factors,       \* scoring loop: [done, out], the signal_count_factor of each
    miner_corpus,  \* _discover_unknown_themes: the argument text_corpus
    unknown_themes, \* _discover_unknown_themes: [done, out], the returned list
    ranked_narratives, \* generate_ideas: the argument `narratives`
    ideas,         \* generate_ideas: [done, out], the returned list
    payloads,      \* the extractors: the arguments github, defi and social
    extracted,     \* the extractors: [done, github, defi, social], what each returned
    gathered,      \* run_pipeline: where the call is, and what gather holds for each collector
    snapshot_dir,  \* SNAPSHOT_DIR during that call: second of the file name |-> content
    pipeline,      \* run_pipeline: how that call ended and what it returned
    matcher_signals, \* theme matching: the list object all_signals, as the calls leave it
    catalog,       \* theme matching: the module-level dict KNOWN_THEMES, as the calls leave it
    assignments,   \* theme matching: the theme_signals of each call so far
    scored_signals, \* scoring loop: the signals of one theme, of any length
    raw_score,     \* scoring loop: [done, out], the raw_score of that theme
    calls,         \* event loop: each call of run_pipeline, its position and its locals
    running,       \* event loop: the call that is executing, "none" between callbacks
    wall,          \* event loop: [second, ticks], the UTC wall clock
    disk,          \* event loop: SNAPSHOT_DIR, second of the file name |-> content
    globals,       \* event loop: the module globals [_cache, _cache_time] of main.py
    journal,       \* history: the collections started and the snapshots written
    gh_call,       \* _gh_get: one call, [pc, attempt, seen, result]
    gh_tasks,      \* collect: each task that calls _gh_get, [pc, attempt, exit]
    _sem           \* github.py: the semaphore, [value, waiters]

normVars == <<values, normalized>>
deltaVars == <<current, previous, deltas>>
discVars == <<all_signals, text_corpus, theme_signals, narratives>>
pipeVars == <<clock, ticks, files, pc, now, _cache, _cache_time, runs, last>>
scoreVars == <<themes, raw_scores>>
factorVars == <<signal_counts, factors>>
minerVars == <<miner_corpus, unknown_themes>>
ideaVars == <<ranked_narratives, ideas>>
extractVars == <<payloads, extracted>>
collectVars == <<gathered, snapshot_dir, pipeline>>
rematchVars == <<matcher_signals, catalog, assignments>>
rawVars == <<scored_signals, raw_score>>
loopVars == <<calls, running, wall, disk, globals, journal>>
getVars == <<gh_call>>
semVars == <<gh_tasks, _sem>>
vars == <<values, normalized, current, previous, deltas,
          all_signals, text_corpus, theme_signals, narratives,
          clock, ticks, files, pc, now, _cache, _cache_time, runs, last,
          themes, raw_scores, signal_counts, factors,
          miner_corpus, unknown_themes, ranked_narratives, ideas,
          payloads, extracted, gathered, snapshot_dir, pipeline,
          matcher_signals, catalog, assignments, scored_signals, raw_score,
          calls, running, wall, disk, globals, journal, gh_call, gh_tasks, _sem>>

(***************************************************************************)
(* Bounds of the model.                                                    *)
(***************************************************************************)
MaxLen == 3          \* longest list of raw scores handed to _normalize_scores
MaxRaw == 4          \* raw scores are drawn from 0..MaxRaw
MaxCurrent == 2      \* longest `current` list handed to compute_deltas
MaxPrevious == 1     \* most narratives in a previous snapshot
MaxSignals == 2      \* longest all_signals list handed to discover_narratives
MaxCorpus == 2       \* most snippets in text_corpus
MaxRuns == 3         \* executions of the pipeline in one behaviour
MaxTicks == 2        \* advances of the clock in one behaviour
MaxDamaged == 1      \* snapshot files damaged at the same time
MaxStrength == 2     \* strength_raw of a scored signal is drawn from 0..MaxStrength
MaxMinerCorpus == 4  \* longest text_corpus handed to _discover_unknown_themes alone
MaxRanked == 7       \* longest narrative list handed to generate_ideas alone
MaxMatched == 3      \* longest all_signals list handed to the theme matching alone
MaxPerKind == 2      \* most signals of one kind in a theme scored alone
MaxCount == 12       \* len(signals) handed to signal_count_factor is in 1..MaxCount

(***************************************************************************)
(* Generic helpers.                                                        *)
(***************************************************************************)
Range(s) == {s[i] : i \in DOMAIN s}

SeqMax(s) == CHOOSE x \in Range(s) : \A y \in Range(s) : y <= x

SeqMin(s) == CHOOSE x \in Range(s) : \A y \in Range(s) : x <= y

\* A list given element by element, [i \in 1..n |-> e], as a tuple.
Tuple(f) == f \o <<>>

\* A dict is a function on its keys: `k in d` and d.get(k, default).
Has(d, k) == k \in DOMAIN d

Get(d, k, default) == IF k \in DOMAIN d THEN d[k] ELSE default

\* All sequences over S of length lo..hi.
SeqsOf(S, lo, hi) == UNION {[1..n -> S] : n \in lo..hi}

\* n / d rounded to the nearest integer, ties to even (n >= 0, d > 0).
RoundHalfEven(n, d) ==
    LET q == n \div d
        r == n % d
    IN  IF 2 * r > d \/ (2 * r = d /\ q % 2 = 1) THEN q + 1 ELSE q

(***************************************************************************)
(* engine.py, _normalize_scores: min-max normalisation onto 0..100,        *)
(* rounded to one decimal.  The result is in tenths:                       *)
(*   round((v - mn) / (mx - mn) * 100, 1)  =  RoundHalfEven(1000(v-mn),    *)
(*   mx-mn) / 10.                                                          *)
(* A quotient lies exactly on a rounding tie only when mx - mn is a        *)
(* multiple of 16; below that the result does not depend on how the        *)
(* floating-point product breaks the tie.                                  *)
(***************************************************************************)
\* a faulty _normalize_scores: the minimum is not subtracted
MutNormalizeNoShift(vals) ==
    IF Len(vals) = 0 \/ SeqMax(vals) = SeqMin(vals)
    THEN Tuple([i \in 1..Len(vals) |-> 500])
    ELSE LET mn == SeqMin(vals)
             mx == SeqMax(vals)
         IN  Tuple([i \in 1..Len(vals) |-> RoundHalfEven(vals[i] * 1000, mx - mn)])

_normalize_scores(vals) ==
    IF Len(vals) = 0 \/ SeqMax(vals) = SeqMin(vals)
    THEN Tuple([i \in 1..Len(vals) |-> 500])
    ELSE LET mn == SeqMin(vals)
             mx == SeqMax(vals)
         IN  Tuple([i \in 1..Len(vals) |-> RoundHalfEven((vals[i] - mn) * 1000, mx - mn)])

(***************************************************************************)
(* Python strings as sequences of characters.                              *)
(***************************************************************************)
UpperLetters == <<"A", "B", "C", "D", "E", "F", "G", "H", "I", "J", "K", "L", "M",
                  "N", "O", "P", "Q", "R", "S", "T", "U", "V", "W", "X", "Y", "Z">>

LowerLetters == <<"a", "b", "c", "d", "e", "f", "g", "h", "i", "j", "k", "l", "m",
                  "n", "o", "p", "q", "r", "s", "t", "u", "v", "w", "x", "y", "z">>

DigitChars == <<"0", "1", "2", "3", "4", "5", "6", "7", "8", "9">>

UpperSet == Range(UpperLetters)
LowerSet == Range(LowerLetters)

\* str.lower(), one character
LowerChar(c) ==
    IF c \in UpperSet
    THEN LowerLetters[CHOOSE i \in DOMAIN UpperLetters : UpperLetters[i] = c]
    ELSE c

UpperChar(c) ==
    IF c \in LowerSet
    THEN UpperLetters[CHOOSE i \in DOMAIN LowerLetters : LowerLetters[i] = c]
    ELSE c

\* str.lower()
Lower(s) == Tuple([i \in 1..Len(s) |-> LowerChar(s[i])])

\* str.title() of one lowercase word
Title(w) == Tuple([i \in 1..Len(w) |-> IF i = 1 THEN UpperChar(w[i]) ELSE w[i]])

\* needle in hay
Contains(hay, needle) ==
    \E i \in 1..(Len(hay) - Len(needle) + 1) :
        \A j \in 1..Len(needle) : hay[i + j - 1] = needle[j]

\* str(n) for n >= 0
RECURSIVE IntToStr(_)
IntToStr(n) ==
    IF n < 10 THEN <<DigitChars[n + 1]>>
    ELSE Append(IntToStr(n \div 10), DigitChars[(n % 10) + 1])

\* re.findall(r"[a-z]+", text): the maximal runs of lowercase letters, in order
RECURSIVE ScanWords(_, _, _, _)
ScanWords(text, i, word, acc) ==
    IF i > Len(text)
    THEN IF word = <<>> THEN acc ELSE Append(acc, word)
    ELSE IF text[i] \in LowerSet
    THEN ScanWords(text, i + 1, Append(word, text[i]), acc)
    ELSE ScanWords(text, i + 1, <<>>, IF word = <<>> THEN acc ELSE Append(acc, word))

FindAllWords(text) == ScanWords(text, 1, <<>>, <<>>)

RECURSIVE ConcatAll(_)
ConcatAll(ss) == IF ss = <<>> THEN <<>> ELSE Head(ss) \o ConcatAll(Tail(ss))

\* a faulty sort: descending, but elements with equal keys change places
MutSortTiesReversed(seq, keys) ==
    LET rank == Tuple([i \in 1..Len(seq) |->
                          1 + Cardinality({j \in DOMAIN seq :
                                  keys[j] > keys[i] \/ (keys[j] = keys[i] /\ j > i)})])
    IN  Tuple([k \in 1..Len(seq) |-> seq[CHOOSE i \in DOMAIN seq : rank[i] = k]])

\* sorted(seq, key=..., reverse=True) and list.sort(key=..., reverse=True), with
\* keys[i] the key of seq[i]: stable, elements with equal keys keep their order.
StableSortDesc(seq, keys) ==
    LET rank == Tuple([i \in 1..Len(seq) |->
                          1 + Cardinality({j \in DOMAIN seq :
                                  keys[j] > keys[i] \/ (keys[j] = keys[i] /\ j < i)})])
    IN  Tuple([k \in 1..Len(seq) |-> seq[CHOOSE i \in DOMAIN seq : rank[i] = k]])

\* seq[:n]
Take(seq, n) == SubSeq(seq, 1, IF Len(seq) < n THEN Len(seq) ELSE n)

(***************************************************************************)
(* engine.py, KNOWN_THEMES: theme name -> keywords, in the dict's order.   *)
(***************************************************************************)
KNOWN_THEMES == <<
    \* AI & Autonomous Agents: ai agent, agent, autonomous, eliza, sendai, llm, machine learning
    [name |-> <<"A", "I", " ", "&", " ", "A", "u", "t", "o", "n", "o", "m", "o", "u", "s", " ", "A", "g", "e", "n", "t", "s">>,
     keywords |-> <<<<"a", "i", " ", "a", "g", "e", "n", "t">>, <<"a", "g", "e", "n", "t">>,
                   <<"a", "u", "t", "o", "n", "o", "m", "o", "u", "s">>,
                   <<"e", "l", "i", "z", "a">>, <<"s", "e", "n", "d", "a", "i">>, <<"l", "l", "m">>,
                   <<"m", "a", "c", "h", "i", "n", "e", " ", "l", "e", "a", "r", "n", "i", "n", "g">>>>],
    \* Privacy & Confidential Transfers: privacy, confidential, zk proof, shielded, private
    [name |-> <<"P", "r", "i", "v", "a", "c", "y", " ", "&", " ", "C", "o", "n", "f", "i", "d", "e", "n", "t", "i", "a", "l", " ", "T", "r", "a", "n", "s", "f", "e", "r", "s">>,
     keywords |-> <<<<"p", "r", "i", "v", "a", "c", "y">>,
                   <<"c", "o", "n", "f", "i", "d", "e", "n", "t", "i", "a", "l">>,
                   <<"z", "k", " ", "p", "r", "o", "o", "f">>,
                   <<"s", "h", "i", "e", "l", "d", "e", "d">>, <<"p", "r", "i", "v", "a", "t", "e">>>>],
    \* Stablecoin & PayFi Expansion: stablecoin, payfi, payment, usdc, usdt, pyusd, pay
    [name |-> <<"S", "t", "a", "b", "l", "e", "c", "o", "i", "n", " ", "&", " ", "P", "a", "y", "F", "i", " ", "E", "x", "p", "a", "n", "s", "i", "o", "n">>,
     keywords |-> <<<<"s", "t", "a", "b", "l", "e", "c", "o", "i", "n">>,
                   <<"p", "a", "y", "f", "i">>, <<"p", "a", "y", "m", "e", "n", "t">>,
                   <<"u", "s", "d", "c">>, <<"u", "s", "d", "t">>, <<"p", "y", "u", "s", "d">>,
                   <<"p", "a", "y">>>>],
    \* DePIN & Physical Infrastructure: depin, helium, hivemapper, render, physical infrastructure, iot
    [name |-> <<"D", "e", "P", "I", "N", " ", "&", " ", "P", "h", "y", "s", "i", "c", "a", "l", " ", "I", "n", "f", "r", "a", "s", "t", "r", "u", "c", "t", "u", "r", "e">>,
     keywords |-> <<<<"d", "e", "p", "i", "n">>, <<"h", "e", "l", "i", "u", "m">>,
                   <<"h", "i", "v", "e", "m", "a", "p", "p", "e", "r">>,
                   <<"r", "e", "n", "d", "e", "r">>,
                   <<"p", "h", "y", "s", "i", "c", "a", "l", " ", "i", "n", "f", "r", "a", "s", "t", "r", "u", "c", "t", "u", "r", "e">>,
                   <<"i", "o", "t">>>>],
    \* Liquid Staking & Restaking: liquid staking, lst, restaking, msol, jitosol, bsol, sanctum
    [name |-> <<"L", "i", "q", "u", "i", "d", " ", "S", "t", "a", "k", "i", "n", "g", " ", "&", " ", "R", "e", "s", "t", "a", "k", "i", "n", "g">>,
     keywords |-> <<<<"l", "i", "q", "u", "i", "d", " ", "s", "t", "a", "k", "i", "n", "g">>,
                   <<"l", "s", "t">>, <<"r", "e", "s", "t", "a", "k", "i", "n", "g">>,
                   <<"m", "s", "o", "l">>, <<"j", "i", "t", "o", "s", "o", "l">>,
                   <<"b", "s", "o", "l">>, <<"s", "a", "n", "c", "t", "u", "m">>>>],
    \* Real World Assets (RWA): rwa, tokeniz, real world, securities, equity
    [name |-> <<"R", "e", "a", "l", " ", "W", "o", "r", "l", "d", " ", "A", "s", "s", "e", "t", "s", " ", "(", "R", "W", "A", ")">>,
     keywords |-> <<<<"r", "w", "a">>, <<"t", "o", "k", "e", "n", "i", "z">>,
                   <<"r", "e", "a", "l", " ", "w", "o", "r", "l", "d">>,
                   <<"s", "e", "c", "u", "r", "i", "t", "i", "e", "s">>,
                   <<"e", "q", "u", "i", "t", "y">>>>],
    \* ZK Compression & Scalability: zk compression, compressed, light protocol, scalab
    [name |-> <<"Z", "K", " ", "C", "o", "m", "p", "r", "e", "s", "s", "i", "o", "n", " ", "&", " ", "S", "c", "a", "l", "a", "b", "i", "l", "i", "t", "y">>,
     keywords |-> <<<<"z", "k", " ", "c", "o", "m", "p", "r", "e", "s", "s", "i", "o", "n">>,
                   <<"c", "o", "m", "p", "r", "e", "s", "s", "e", "d">>,
                   <<"l", "i", "g", "h", "t", " ", "p", "r", "o", "t", "o", "c", "o", "l">>,
                   <<"s", "c", "a", "l", "a", "b">>>>],
    \* MEV & Trading Infrastructure: mev, jito, sandwich, frontrun, order flow
    [name |-> <<"M", "E", "V", " ", "&", " ", "T", "r", "a", "d", "i", "n", "g", " ", "I", "n", "f", "r", "a", "s", "t", "r", "u", "c", "t", "u", "r", "e">>,
     keywords |-> <<<<"m", "e", "v">>, <<"j", "i", "t", "o">>,
                   <<"s", "a", "n", "d", "w", "i", "c", "h">>,
                   <<"f", "r", "o", "n", "t", "r", "u", "n">>,
                   <<"o", "r", "d", "e", "r", " ", "f", "l", "o", "w">>>>],
    \* Token Extensions (Token-2022): token-2022, token extension, transfer hook, interest bearing
    [name |-> <<"T", "o", "k", "e", "n", " ", "E", "x", "t", "e", "n", "s", "i", "o", "n", "s", " ", "(", "T", "o", "k", "e", "n", "-", "2", "0", "2", "2", ")">>,
     keywords |-> <<<<"t", "o", "k", "e", "n", "-", "2", "0", "2", "2">>,
                   <<"t", "o", "k", "e", "n", " ", "e", "x", "t", "e", "n", "s", "i", "o", "n">>,
                   <<"t", "r", "a", "n", "s", "f", "e", "r", " ", "h", "o", "o", "k">>,
                   <<"i", "n", "t", "e", "r", "e", "s", "t", " ", "b", "e", "a", "r", "i", "n", "g">>>>],
    \* Consumer Apps & Blinks: blinks, actions, consumer, social commerce, creator
    [name |-> <<"C", "o", "n", "s", "u", "m", "e", "r", " ", "A", "p", "p", "s", " ", "&", " ", "B", "l", "i", "n", "k", "s">>,
     keywords |-> <<<<"b", "l", "i", "n", "k", "s">>, <<"a", "c", "t", "i", "o", "n", "s">>,
                   <<"c", "o", "n", "s", "u", "m", "e", "r">>,
                   <<"s", "o", "c", "i", "a", "l", " ", "c", "o", "m", "m", "e", "r", "c", "e">>,
                   <<"c", "r", "e", "a", "t", "o", "r">>>>],
    \* Gaming & Entertainment: gaming, game, nft, metaverse, play
    [name |-> <<"G", "a", "m", "i", "n", "g", " ", "&", " ", "E", "n", "t", "e", "r", "t", "a", "i", "n", "m", "e", "n", "t">>,
     keywords |-> <<<<"g", "a", "m", "i", "n", "g">>, <<"g", "a", "m", "e">>, <<"n", "f", "t">>,
                   <<"m", "e", "t", "a", "v", "e", "r", "s", "e">>, <<"p", "l", "a", "y">>>>],
    \* Infrastructure & Validators: firedancer, validator, alpenglow, consensus, finality
    [name |-> <<"I", "n", "f", "r", "a", "s", "t", "r", "u", "c", "t", "u", "r", "e", " ", "&", " ", "V", "a", "l", "i", "d", "a", "t", "o", "r", "s">>,
     keywords |-> <<<<"f", "i", "r", "e", "d", "a", "n", "c", "e", "r">>,
                   <<"v", "a", "l", "i", "d", "a", "t", "o", "r">>,
                   <<"a", "l", "p", "e", "n", "g", "l", "o", "w">>,
                   <<"c", "o", "n", "s", "e", "n", "s", "u", "s">>,
                   <<"f", "i", "n", "a", "l", "i", "t", "y">>>>],
    \* Perpetuals & Derivatives: perp, perpetual, futures, options, derivative
    [name |-> <<"P", "e", "r", "p", "e", "t", "u", "a", "l", "s", " ", "&", " ", "D", "e", "r", "i", "v", "a", "t", "i", "v", "e", "s">>,
     keywords |-> <<<<"p", "e", "r", "p">>, <<"p", "e", "r", "p", "e", "t", "u", "a", "l">>,
                   <<"f", "u", "t", "u", "r", "e", "s">>, <<"o", "p", "t", "i", "o", "n", "s">>,
                   <<"d", "e", "r", "i", "v", "a", "t", "i", "v", "e">>>>],
    \* Prediction Markets: prediction, betting, oracle, forecast
    [name |-> <<"P", "r", "e", "d", "i", "c", "t", "i", "o", "n", " ", "M", "a", "r", "k", "e", "t", "s">>,
     keywords |-> <<<<"p", "r", "e", "d", "i", "c", "t", "i", "o", "n">>,
                   <<"b", "e", "t", "t", "i", "n", "g">>, <<"o", "r", "a", "c", "l", "e">>,
                   <<"f", "o", "r", "e", "c", "a", "s", "t">>>>],
    \* Cross-Chain & Bridges: bridge, cross-chain, wormhole, layerzero, interop
    [name |-> <<"C", "r", "o", "s", "s", "-", "C", "h", "a", "i", "n", " ", "&", " ", "B", "r", "i", "d", "g", "e", "s">>,
     keywords |-> <<<<"b", "r", "i", "d", "g", "e">>,
                   <<"c", "r", "o", "s", "s", "-", "c", "h", "a", "i", "n">>,
                   <<"w", "o", "r", "m", "h", "o", "l", "e">>,
                   <<"l", "a", "y", "e", "r", "z", "e", "r", "o">>,
                   <<"i", "n", "t", "e", "r", "o", "p">>>>]
    >>

ThemeIds == DOMAIN KNOWN_THEMES

(***************************************************************************)
(* engine.py, _discover_unknown_themes: stop_words.                        *)
(***************************************************************************)
stop_words == {
    <<"t", "h", "e">>, <<"a", "n", "d">>, <<"f", "o", "r">>, <<"w", "i", "t", "h">>,
    <<"t", "h", "a", "t">>, <<"t", "h", "i", "s">>, <<"f", "r", "o", "m">>, <<"h", "a", "v", "e">>,
    <<"a", "r", "e">>, <<"w", "a", "s">>, <<"h", "o", "w">>, <<"c", "a", "n">>, <<"y", "o", "u">>,
    <<"y", "o", "u", "r">>, <<"w", "h", "a", "t">>, <<"n", "o", "t">>, <<"b", "u", "t">>,
    <<"h", "a", "s">>, <<"a", "n", "y">>, <<"g", "e", "t">>, <<"u", "s", "e">>, <<"n", "e", "w">>,
    <<"a", "l", "l">>, <<"o", "n", "e">>, <<"s", "o", "l", "a", "n", "a">>, <<"s", "o", "l">>,
    <<"t", "o", "k", "e", "n">>, <<"c", "r", "y", "p", "t", "o">>,
    <<"b", "l", "o", "c", "k", "c", "h", "a", "i", "n">>, <<"w", "e", "b", "3">>,
    <<"p", "r", "o", "g", "r", "a", "m">>, <<"a", "c", "c", "o", "u", "n", "t">>, <<"b", "o", "t">>,
    <<"t", "r", "a", "d", "i", "n", "g">>, <<"o", "p", "e", "n">>, <<"s", "o", "u", "r", "c", "e">>,
    <<"a", "r", "b", "i", "t", "r", "a", "g", "e">>, <<"s", "n", "i", "p", "e", "r">>,
    <<"c", "o", "p", "y">>, <<"v", "o", "l", "u", "m", "e">>, <<"g", "i", "t", "h", "u", "b">>,
    <<"c", "o", "m">>, <<"h", "t", "t", "p">>, <<"h", "t", "t", "p", "s">>, <<"n", "p", "m">>,
    <<"i", "n", "s", "t", "a", "l", "l">>, <<"r", "u", "n">>, <<"b", "u", "i", "l", "d">>,
    <<"t", "e", "s", "t">>, <<"b", "a", "s", "e", "d">>, <<"u", "s", "i", "n", "g">>,
    <<"b", "u", "i", "l", "t">>, <<"m", "a", "d", "e">>, <<"s", "i", "m", "p", "l", "e">>,
    <<"f", "a", "s", "t">>, <<"s", "m", "a", "r", "t">>, <<"b", "e", "s", "t">>,
    <<"f", "r", "e", "e">>, <<"c", "h", "a", "i", "n">>, <<"b", "i", "t", "c", "o", "i", "n">>,
    <<"e", "t", "h", "e", "r", "e", "u", "m">>, <<"w", "a", "l", "l", "e", "t">>,
    <<"p", "r", "o", "t", "o", "c", "o", "l">>, <<"n", "e", "t", "w", "o", "r", "k">>,
    <<"t", "r", "a", "n", "s", "a", "c", "t", "i", "o", "n">>,
    <<"c", "o", "n", "t", "r", "a", "c", "t">>, <<"s", "w", "a", "p">>, <<"d", "a", "p", "p">>,
    <<"d", "e", "f", "i">>, <<"n", "f", "t">>, <<"a", "p", "i">>, <<"s", "d", "k">>,
    <<"c", "l", "i">>, <<"r", "u", "s", "t">>, <<"t", "y", "p", "e", "s", "c", "r", "i", "p", "t">>,
    <<"j", "a", "v", "a", "s", "c", "r", "i", "p", "t">>, <<"p", "y", "t", "h", "o", "n">>,
    <<"a", "n", "c", "h", "o", "r">>, <<"c", "l", "i", "e", "n", "t">>,
    <<"s", "e", "r", "v", "e", "r">>, <<"d", "a", "t", "a">>, <<"p", "r", "i", "c", "e">>,
    <<"m", "a", "r", "k", "e", "t">>, <<"o", "r", "d", "e", "r">>,
    <<"t", "r", "a", "n", "s", "f", "e", "r">>, <<"a", "d", "d", "r", "e", "s", "s">>,
    <<"k", "e", "y">>, <<"s", "i", "g", "n">>, <<"h", "a", "s", "h">>, <<"b", "l", "o", "c", "k">>,
    <<"v", "a", "l", "i", "d", "a", "t", "o", "r">>, <<"n", "o", "d", "e">>,
    <<"s", "t", "a", "k", "e">>, <<"r", "e", "w", "a", "r", "d">>, <<"m", "i", "n", "t">>,
    <<"b", "u", "r", "n">>, <<"s", "u", "p", "p", "l", "y">>}

(***************************************************************************)
(* engine.py, discover_narratives, phase 1: theme matching.  A signal is   *)
(* [source, topic, text, strength_raw]; its "type" and "metrics" are never *)
(* read by the engine and are left out.                                    *)
(***************************************************************************)
\* a faulty signal_text: the topic is left out
MutSignalTextOnly(signal) == Lower(signal.text)

\* signal_text = f"{signal.get('topic', '')} {signal.get('text', '')}".lower()
SignalText(signal) == Lower(signal.topic \o <<" ">> \o signal.text)

\* any(kw in signal_text for kw in keywords)
Matches(signal_text, keywords) ==
    \E k \in DOMAIN keywords : Contains(signal_text, keywords[k])

\* theme_signals after the loops: for every theme the signals appended to it, in
\* the order of all_signals
ThemeSignals(signals) ==
    LET signal_text == Tuple([i \in 1..Len(signals) |-> SignalText(signals[i])])
        indices == Tuple([i \in 1..Len(signals) |-> i])
    IN  Tuple([t \in ThemeIds |->
                  LET m == SelectSeq(indices,
                               LAMBDA i : Matches(signal_text[i], KNOWN_THEMES[t].keywords))
                  IN  Tuple([k \in 1..Len(m) |-> signals[m[k]]])])

(***************************************************************************)
(* engine.py, _discover_unknown_themes: phase 2, frequent bigrams of the   *)
(* text corpus that the catalog does not know.                             *)
(***************************************************************************)
MostCommonLimit == 30
MinBigramCount == 3
MaxDiscovered == 3
DiscoveredWeight == 3

\* a faulty miner: stop-words and short words are kept
MutUnfilteredWords(text) == FindAllWords(text)

\* words = [w for w in re.findall(...) if w not in stop_words and len(w) > 2]
FilteredWords(text) ==
    SelectSeq(FindAllWords(text), LAMBDA w : w \notin stop_words /\ Len(w) > 2)

\* the pairs (words[i], words[i + 1])
Bigrams(words) == Tuple([i \in 1..(Len(words) - 1) |-> <<words[i], words[i + 1]>>])

TextBigrams(text) == Bigrams(FilteredWords(text))

\* every bigram occurrence of the corpus, in the order the loops count them
CorpusBigrams(corpus) == ConcatAll(Tuple([i \in 1..Len(corpus) |-> TextBigrams(corpus[i])]))

\* bigram_counts.items(): the distinct bigrams in first-seen order, with their counts
Counter(occ) ==
    LET first == SelectSeq(Tuple([i \in 1..Len(occ) |-> i]),
                           LAMBDA i : \A j \in 1..(i - 1) : occ[j] # occ[i])
    IN  Tuple([k \in 1..Len(first) |->
                  [bigram |-> occ[first[k]],
                   count |-> Cardinality({j \in DOMAIN occ : occ[j] = occ[first[k]]})]])

BigramCounts(corpus) == Counter(CorpusBigrams(corpus))

\* significant = [(bg, count) for bg, count in bigram_counts.most_common(30) if count >= 3]
MostCommon(counts, n) ==
    Take(StableSortDesc(counts, Tuple([i \in 1..Len(counts) |-> counts[i].count])), n)

Significant(corpus) ==
    SelectSeq(MostCommon(BigramCounts(corpus), MostCommonLimit),
              LAMBDA e : e.count >= MinBigramCount)

\* all_known_keywords: every word of every catalog keyword
all_known_keywords ==
    UNION {UNION {Range(FindAllWords(Lower(KNOWN_THEMES[t].keywords[k]))) :
                     k \in DOMAIN KNOWN_THEMES[t].keywords} : t \in ThemeIds}

EmergingSuffix == <<" ", "(", "E", "m", "e", "r", "g", "i", "n", "g", ")">>

\* 'Emerging topic "w1 w2" appeared {count} times across sources'
EmergingText(w1, w2, count) ==
    <<"E", "m", "e", "r", "g", "i", "n", "g", " ", "t", "o", "p", "i", "c", " ", "\"">>
    \o w1 \o <<" ">> \o w2
    \o <<"\"", " ", "a", "p", "p", "e", "a", "r", "e", "d", " ">>
    \o IntToStr(count)
    \o <<" ", "t", "i", "m", "e", "s", " ", "a", "c", "r", "o", "s", "s", " ",
         "s", "o", "u", "r", "c", "e", "s">>

RECURSIVE Gcd(_, _)
Gcd(a, b) == IF b = 0 THEN a ELSE Gcd(b, a % b)

RECURSIVE LcmUpTo(_)
LcmUpTo(n) == IF n <= 1 THEN 1 ELSE (LcmUpTo(n - 1) * n) \div Gcd(LcmUpTo(n - 1), n)

\* A raw score is a rational number.  The model holds every raw_score multiplied
\* by RawDen, a common denominator of all raw scores of at most MaxSignals signals
\* (see CatalogRawScore); _normalize_scores does not depend on the common factor.
RawDen == 30 * LcmUpTo(MaxSignals)

\* a faulty miner: a discovered theme is scored as a catalog theme of one signal,
\* count * 1.0 * (1 / 3)
MutUnknownThemeByFormula(e) ==
    LET w1 == e.bigram[1]
        w2 == e.bigram[2]
    IN  [name |-> Title(w1) \o <<" ">> \o Title(w2) \o EmergingSuffix,
         raw_score |-> e.count * (RawDen \div 3),
         signal_count |-> e.count,
         sources |-> {"text_analysis"},
         source_diversity |-> 1,
         signals |-> <<[source |-> "text_analysis",
                        topic |-> w1 \o <<" ">> \o w2,
                        text |-> EmergingText(w1, w2, e.count),
                        strength_raw |-> e.count]>>,
         discovered |-> TRUE]

\* one entry of unknown_themes
UnknownTheme(e) ==
    LET w1 == e.bigram[1]
        w2 == e.bigram[2]
    IN  [name |-> Title(w1) \o <<" ">> \o Title(w2) \o EmergingSuffix,
         raw_score |-> e.count * DiscoveredWeight * RawDen,
         signal_count |-> e.count,
         sources |-> {"text_analysis"},
         source_diversity |-> 1,
         signals |-> <<[source |-> "text_analysis",
                        topic |-> w1 \o <<" ">> \o w2,
                        text |-> EmergingText(w1, w2, e.count),
                        strength_raw |-> e.count]>>,
         discovered |-> TRUE]

\* unknown_themes: the significant bigrams without a catalog word, as themes
UnknownThemes(significant) ==
    LET unknown == SelectSeq(significant,
                       LAMBDA e : /\ e.bigram[1] \notin all_known_keywords
                                  /\ e.bigram[2] \notin all_known_keywords)
    IN  Tuple([i \in 1..Len(unknown) |-> UnknownTheme(unknown[i])])

\* a faulty miner: the list is returned whole
MutDiscoverUncapped(corpus) ==
    IF corpus = <<>> THEN <<>> ELSE UnknownThemes(Significant(corpus))

_discover_unknown_themes(corpus) ==
    IF corpus = <<>> THEN <<>>
    ELSE Take(UnknownThemes(Significant(corpus)), MaxDiscovered)

(***************************************************************************)
(* engine.py, discover_narratives: scoring, normalisation and ranking.     *)
(***************************************************************************)
RECURSIVE SeqSum(_)
SeqSum(s) == IF s = <<>> THEN 0 ELSE Head(s) + SeqSum(Tail(s))

\* diversity_multiplier = 1.0 + 0.4 * (len(sources) - 1), in tenths
DiversityBase == 10
DiversityStep == 4

\* a faulty scoring loop: several sources earn no bonus
MutNoDiversityBonus(d) == DiversityBase

diversity_multiplier(d) == DiversityBase + DiversityStep * (d - 1)

\* signal_count_factor = min(len(signals) / 3, 2.0), in thirds: min(n, 6) / 3
FactorCap == 6

\* a faulty scoring loop: the factor is not capped
MutFactorUncapped(n) == n

signal_count_factor(n) == IF n < FactorCap THEN n ELSE FactorCap

\* s.get("strength_raw", 0)
Strength(s) == Get(s, "strength_raw", 0)

\* a faulty scoring loop: the strengths are summed, not averaged
MutRawScoreOfSum(den, signals) ==
    LET n == Len(signals)
        d == Cardinality({signals[i].source : i \in DOMAIN signals})
        total == SeqSum(Tuple([i \in 1..n |-> Strength(signals[i])]))
    IN  total * diversity_multiplier(d) * signal_count_factor(n) * (den \div 30)

\* raw_score = avg_strength * diversity_multiplier * signal_count_factor
\*           = (sum / n) * (diversity_multiplier / 10) * (signal_count_factor / 3),
\* times den, a multiple of 30 n, so that the division is exact.
RawScoreOver(den, signals) ==
    LET n == Len(signals)
        d == Cardinality({signals[i].source : i \in DOMAIN signals})
        total == SeqSum(Tuple([i \in 1..n |-> Strength(signals[i])]))
    IN  total * diversity_multiplier(d) * signal_count_factor(n) * (den \div (30 * n))

\* the raw score of a theme of at most MaxSignals signals, times RawDen
CatalogRawScore(signals) == RawScoreOver(RawDen, signals)

CatalogNarrative(t, signals) ==
    [name |-> KNOWN_THEMES[t].name,
     raw_score |-> CatalogRawScore(signals),
     signal_count |-> Len(signals),
     sources |-> {signals[i].source : i \in DOMAIN signals},
     source_diversity |-> Cardinality({signals[i].source : i \in DOMAIN signals}),
     signals |-> signals,
     discovered |-> FALSE]

\* a faulty scoring loop: themes without signals are kept, with raw_score 0
MutKeepEmptyThemes(ts) ==
    Tuple([t \in ThemeIds |->
              IF ts[t] = <<>>
              THEN [name |-> KNOWN_THEMES[t].name, raw_score |-> 0, signal_count |-> 0,
                    sources |-> {}, source_diversity |-> 0, signals |-> <<>>,
                    discovered |-> FALSE]
              ELSE CatalogNarrative(t, ts[t])])

\* the catalog narratives built from theme_signals: themes without signals are skipped
CatalogNarratives(ts) ==
    LET kept == SelectSeq(Tuple([t \in ThemeIds |-> t]), LAMBDA t : ts[t] # <<>>)
    IN  Tuple([i \in 1..Len(kept) |-> CatalogNarrative(kept[i], ts[kept[i]])])

\* n["score"] = score, for n, score in zip(narratives, normalized)
WithScores(unranked, scores) ==
    Tuple([i \in 1..Len(unranked) |->
              [name |-> unranked[i].name,
               raw_score |-> unranked[i].raw_score,
               signal_count |-> unranked[i].signal_count,
               sources |-> unranked[i].sources,
               source_diversity |-> unranked[i].source_diversity,
               signals |-> unranked[i].signals,
               discovered |-> unranked[i].discovered,
               score |-> scores[i]]])

\* the end of discover_narratives: normalise the raw scores, sort by score
Ranked(unranked) ==
    LET scores == _normalize_scores(Tuple([i \in 1..Len(unranked) |-> unranked[i].raw_score]))
    IN  StableSortDesc(WithScores(unranked, scores), scores)

\* discover_narratives from the scoring loop on, given theme_signals
RankedNarratives(ts, corpus) ==
    Ranked(CatalogNarratives(ts) \o _discover_unknown_themes(corpus))

discover_narratives(signals, corpus) == RankedNarratives(ThemeSignals(signals), corpus)
(***************************************************************************)
(* engine.py, generate_ideas: the template catalog and the priority order. *)
(* Every template key holds one template.  Of a template the model keeps   *)
(* the title; the prose fields, into which figures of defi_data are        *)
(* interpolated, are left out.                                             *)
(***************************************************************************)
idea_templates == <<
    \* AI & Autonomous Agents: Multi-Agent DeFi Strategy Orchestrator
    [key |-> <<"A", "I", " ", "&", " ", "A", "u", "t", "o", "n", "o", "m", "o", "u", "s", " ", "A", "g", "e", "n", "t", "s">>,
     title |-> <<"M", "u", "l", "t", "i", "-", "A", "g", "e", "n", "t", " ", "D", "e", "F", "i", " ", "S", "t", "r", "a", "t", "e", "g", "y", " ", "O", "r", "c", "h", "e", "s", "t", "r", "a", "t", "o", "r">>],
    \* Privacy & Confidential Transfers: Privacy-First Payroll & Treasury Tool
    [key |-> <<"P", "r", "i", "v", "a", "c", "y", " ", "&", " ", "C", "o", "n", "f", "i", "d", "e", "n", "t", "i", "a", "l", " ", "T", "r", "a", "n", "s", "f", "e", "r", "s">>,
     title |-> <<"P", "r", "i", "v", "a", "c", "y", "-", "F", "i", "r", "s", "t", " ", "P", "a", "y", "r", "o", "l", "l", " ", "&", " ", "T", "r", "e", "a", "s", "u", "r", "y", " ", "T", "o", "o", "l">>],
    \* Stablecoin & PayFi Expansion: Multi-Stablecoin Payment Router
    [key |-> <<"S", "t", "a", "b", "l", "e", "c", "o", "i", "n", " ", "&", " ", "P", "a", "y", "F", "i", " ", "E", "x", "p", "a", "n", "s", "i", "o", "n">>,
     title |-> <<"M", "u", "l", "t", "i", "-", "S", "t", "a", "b", "l", "e", "c", "o", "i", "n", " ", "P", "a", "y", "m", "e", "n", "t", " ", "R", "o", "u", "t", "e", "r">>],
    \* DePIN & Physical Infrastructure: DePIN Revenue Analytics & Staking Optimizer
    [key |-> <<"D", "e", "P", "I", "N", " ", "&", " ", "P", "h", "y", "s", "i", "c", "a", "l", " ", "I", "n", "f", "r", "a", "s", "t", "r", "u", "c", "t", "u", "r", "e">>,
     title |-> <<"D", "e", "P", "I", "N", " ", "R", "e", "v", "e", "n", "u", "e", " ", "A", "n", "a", "l", "y", "t", "i", "c", "s", " ", "&", " ", "S", "t", "a", "k", "i", "n", "g", " ", "O", "p", "t", "i", "m", "i", "z", "e", "r">>],
    \* Liquid Staking & Restaking: LST Yield Aggregator with Auto-Routing
    [key |-> <<"L", "i", "q", "u", "i", "d", " ", "S", "t", "a", "k", "i", "n", "g", " ", "&", " ", "R", "e", "s", "t", "a", "k", "i", "n", "g">>,
     title |-> <<"L", "S", "T", " ", "Y", "i", "e", "l", "d", " ", "A", "g", "g", "r", "e", "g", "a", "t", "o", "r", " ", "w", "i", "t", "h", " ", "A", "u", "t", "o", "-", "R", "o", "u", "t", "i", "n", "g">>],
    \* Real World Assets (RWA): RWA Compliance Toolkit for Token-2022
    [key |-> <<"R", "e", "a", "l", " ", "W", "o", "r", "l", "d", " ", "A", "s", "s", "e", "t", "s", " ", "(", "R", "W", "A", ")">>,
     title |-> <<"R", "W", "A", " ", "C", "o", "m", "p", "l", "i", "a", "n", "c", "e", " ", "T", "o", "o", "l", "k", "i", "t", " ", "f", "o", "r", " ", "T", "o", "k", "e", "n", "-", "2", "0", "2", "2">>],
    \* ZK Compression & Scalability: Compressed Token Airdrop & Distribution Platform
    [key |-> <<"Z", "K", " ", "C", "o", "m", "p", "r", "e", "s", "s", "i", "o", "n", " ", "&", " ", "S", "c", "a", "l", "a", "b", "i", "l", "i", "t", "y">>,
     title |-> <<"C", "o", "m", "p", "r", "e", "s", "s", "e", "d", " ", "T", "o", "k", "e", "n", " ", "A", "i", "r", "d", "r", "o", "p", " ", "&", " ", "D", "i", "s", "t", "r", "i", "b", "u", "t", "i", "o", "n", " ", "P", "l", "a", "t", "f", "o", "r", "m">>],
    \* Infrastructure & Validators: Firedancer Migration Health Monitor
    [key |-> <<"I", "n", "f", "r", "a", "s", "t", "r", "u", "c", "t", "u", "r", "e", " ", "&", " ", "V", "a", "l", "i", "d", "a", "t", "o", "r", "s">>,
     title |-> <<"F", "i", "r", "e", "d", "a", "n", "c", "e", "r", " ", "M", "i", "g", "r", "a", "t", "i", "o", "n", " ", "H", "e", "a", "l", "t", "h", " ", "M", "o", "n", "i", "t", "o", "r">>],
    \* Perpetuals & Derivatives: On-Chain Derivatives Analytics Terminal
    [key |-> <<"P", "e", "r", "p", "e", "t", "u", "a", "l", "s", " ", "&", " ", "D", "e", "r", "i", "v", "a", "t", "i", "v", "e", "s">>,
     title |-> <<"O", "n", "-", "C", "h", "a", "i", "n", " ", "D", "e", "r", "i", "v", "a", "t", "i", "v", "e", "s", " ", "A", "n", "a", "l", "y", "t", "i", "c", "s", " ", "T", "e", "r", "m", "i", "n", "a", "l">>]
    >>

priority_order == <<
    \* AI & Autonomous Agents
    <<"A", "I", " ", "&", " ", "A", "u", "t", "o", "n", "o", "m", "o", "u", "s", " ", "A", "g", "e", "n", "t", "s">>,
    \* Privacy & Confidential Transfers
    <<"P", "r", "i", "v", "a", "c", "y", " ", "&", " ", "C", "o", "n", "f", "i", "d", "e", "n", "t", "i", "a", "l", " ", "T", "r", "a", "n", "s", "f", "e", "r", "s">>,
    \* Stablecoin & PayFi Expansion
    <<"S", "t", "a", "b", "l", "e", "c", "o", "i", "n", " ", "&", " ", "P", "a", "y", "F", "i", " ", "E", "x", "p", "a", "n", "s", "i", "o", "n">>,
    \* DePIN & Physical Infrastructure
    <<"D", "e", "P", "I", "N", " ", "&", " ", "P", "h", "y", "s", "i", "c", "a", "l", " ", "I", "n", "f", "r", "a", "s", "t", "r", "u", "c", "t", "u", "r", "e">>,
    \* Liquid Staking & Restaking
    <<"L", "i", "q", "u", "i", "d", " ", "S", "t", "a", "k", "i", "n", "g", " ", "&", " ", "R", "e", "s", "t", "a", "k", "i", "n", "g">>,
    \* Real World Assets (RWA)
    <<"R", "e", "a", "l", " ", "W", "o", "r", "l", "d", " ", "A", "s", "s", "e", "t", "s", " ", "(", "R", "W", "A", ")">>,
    \* ZK Compression & Scalability
    <<"Z", "K", " ", "C", "o", "m", "p", "r", "e", "s", "s", "i", "o", "n", " ", "&", " ", "S", "c", "a", "l", "a", "b", "i", "l", "i", "t", "y">>,
    \* Infrastructure & Validators
    <<"I", "n", "f", "r", "a", "s", "t", "r", "u", "c", "t", "u", "r", "e", " ", "&", " ", "V", "a", "l", "i", "d", "a", "t", "o", "r", "s">>,
    \* Perpetuals & Derivatives
    <<"P", "e", "r", "p", "e", "t", "u", "a", "l", "s", " ", "&", " ", "D", "e", "r", "i", "v", "a", "t", "i", "v", "e", "s">>
    >>
(***************************************************************************)
(* engine.py, generate_ideas: matching narratives to templates.            *)
(***************************************************************************)
\* str.split(): the maximal runs of characters other than blanks
RECURSIVE SplitFrom(_, _, _, _)
SplitFrom(text, i, word, acc) ==
    IF i > Len(text)
    THEN IF word = <<>> THEN acc ELSE Append(acc, word)
    ELSE IF text[i] = " "
         THEN SplitFrom(text, i + 1, <<>>, IF word = <<>> THEN acc ELSE Append(acc, word))
         ELSE SplitFrom(text, i + 1, Append(word, text[i]), acc)

Split(text) == SplitFrom(text, 1, <<>>, <<>>)

MinKeyWordLen == 3
MaxIdeas == 5

\* key_words = [w for w in template_key.lower().split() if len(w) > 3]
key_words(template_key) ==
    SelectSeq(Split(Lower(template_key)), LAMBDA w : Len(w) > MinKeyWordLen)

TemplateIds == DOMAIN idea_templates

\* the first of the template ids in `among`, or 0 when there is none
FirstOf(among) == IF among = {} THEN 0 ELSE CHOOSE k \in among : \A j \in among : k <= j

\* the exact match: the template whose key is the narrative name
ExactMatch(name) == FirstOf({k \in TemplateIds : idea_templates[k].key = name})

\* any(w in name_lower for w in key_words)
FuzzyHit(name_lower, words) == \E i \in DOMAIN words : Contains(name_lower, words[i])

\* the fuzzy match: the first template one of whose key words is part of the name
FuzzyMatch(name_lower) ==
    FirstOf({k \in TemplateIds : FuzzyHit(name_lower, key_words(idea_templates[k].key))})

\* a faulty matcher: only the exact match is tried
MutExactOnly(name) == ExactMatch(name)

\* a faulty matcher: the fuzzy match is tried before the exact one
MutFuzzyFirst(name) ==
    IF FuzzyMatch(Lower(name)) # 0 THEN FuzzyMatch(Lower(name)) ELSE ExactMatch(name)

\* matched_key as a template id, 0 for None
matched_key(name) ==
    IF ExactMatch(name) # 0 THEN ExactMatch(name) ELSE FuzzyMatch(Lower(name))

\* one appended idea
Idea(k, name, score, signal_count) ==
    [template |-> idea_templates[k].key,
     title |-> idea_templates[k].title,
     tied_narrative |-> name,
     narrative_score |-> score,
     signal_count |-> signal_count]

\* a faulty first pass: used_templates is not consulted
MutReuseTemplates(k, used) == k # 0

\* matched_key and matched_key not in used_templates
Usable(k, used) == k # 0 /\ idea_templates[k].key \notin used

\* the first pass from narrative i on; st = [ideas, used_templates]
RECURSIVE FirstPass(_, _, _)
\* a faulty first pass: the matched template is not added to used_templates
MutFirstPassForgets(narrs, i, st, k) ==
    IF Usable(k, st.used)
    THEN FirstPass(narrs, i + 1,
             [ideas |-> Append(st.ideas, Idea(k, narrs[i].name, narrs[i].score,
                                              narrs[i].signal_count)),
              used |-> st.used])
    ELSE FirstPass(narrs, i + 1, st)

FirstPassStep(narrs, i, st, k) ==
    IF Usable(k, st.used)
    THEN FirstPass(narrs, i + 1,
             [ideas |-> Append(st.ideas, Idea(k, narrs[i].name, narrs[i].score,
                                              narrs[i].signal_count)),
              used |-> st.used \cup {idea_templates[k].key}])
    ELSE FirstPass(narrs, i + 1, st)

FirstPass(narrs, i, st) ==
    IF i > Len(narrs) \/ Len(st.ideas) >= MaxIdeas
    THEN st
    ELSE FirstPassStep(narrs, i, st, matched_key(narrs[i].name))

\* tied = next((n for n in narratives if n["name"] == key), None), as an index or 0
Tied(narrs, key) == FirstOf({i \in DOMAIN narrs : narrs[i].name = key})

\* a faulty second pass: a filled idea carries the score of the top narrative
MutFillTopScore(narrs, key, tied) ==
    Idea(ExactMatch(key), key,
         IF narrs = <<>> THEN 0 ELSE narrs[1].score,
         IF narrs = <<>> THEN 0 ELSE narrs[1].signal_count)

FillIdea(narrs, key, tied) ==
    Idea(ExactMatch(key), key,
         IF tied = 0 THEN 0 ELSE narrs[tied].score,
         IF tied = 0 THEN 0 ELSE narrs[tied].signal_count)

\* the second pass from priority_order[p] on
RECURSIVE SecondPass(_, _, _)
SecondPass(narrs, p, st) ==
    IF p > Len(priority_order)
    THEN st
    ELSE IF priority_order[p] \notin st.used /\ ExactMatch(priority_order[p]) # 0
         THEN IF Len(st.ideas) + 1 >= MaxIdeas
              THEN [ideas |-> Append(st.ideas,
                                  FillIdea(narrs, priority_order[p],
                                           Tied(narrs, priority_order[p]))),
                    used |-> st.used \cup {priority_order[p]}]
              ELSE SecondPass(narrs, p + 1,
                       [ideas |-> Append(st.ideas,
                                      FillIdea(narrs, priority_order[p],
                                               Tied(narrs, priority_order[p]))),
                        used |-> st.used \cup {priority_order[p]}])
         ELSE SecondPass(narrs, p + 1, st)

\* a faulty generate_ideas: the second pass is missing
MutNoFallback(narrs, st) == st

FillRemaining(narrs, st) ==
    IF Len(st.ideas) < MaxIdeas THEN SecondPass(narrs, 1, st) ELSE st

\* generate_ideas(narratives, defi_data): the returned list ideas[:5]
generate_ideas(narrs) ==
    Take(FillRemaining(narrs, FirstPass(narrs, 1, [ideas |-> <<>>, used |-> {}])).ideas,
         MaxIdeas)

(***************************************************************************)
(* engine.py, the signal extractors.  A payload and each of its records is *)
(* a dict: a function whose domain holds the keys that are present; {} is  *)
(* the function with the empty domain.  d.get(k, default) is Get, d[k] of  *)
(* an absent key raises KeyError.  An extractor returns [raised, signals]; *)
(* of a signal the field "metrics" is left out.                            *)
(***************************************************************************)
\* characters outside ASCII, each held as one element of a text
EmDash == <<"U+2014">>
UpArrow == <<"U+2191">>

Raised == [raised |-> TRUE, signals |-> <<>>]

Ok(signals) == [raised |-> FALSE, signals |-> signals]

\* the outcome of a loop whose passes have these outcomes: an exception of one
\* pass ends the function, otherwise the appended signals follow one another
Collect(passes) ==
    IF \E i \in DOMAIN passes : passes[i].raised
    THEN Raised
    ELSE Ok(ConcatAll(Tuple([i \in 1..Len(passes) |-> passes[i].signals])))

\* sep.join(items)
RECURSIVE Join(_, _)
Join(items, sep) ==
    IF items = <<>> THEN <<>>
    ELSE IF Len(items) = 1 THEN items[1]
    ELSE items[1] \o sep \o Join(Tail(items), sep)

\* text.replace(old, ""), from position i on
RECURSIVE RemoveFrom(_, _, _)
RemoveFrom(text, old, i) ==
    IF i > Len(text) THEN <<>>
    ELSE IF i + Len(old) - 1 <= Len(text) /\ SubSeq(text, i, i + Len(old) - 1) = old
         THEN RemoveFrom(text, old, i + Len(old))
         ELSE <<text[i]>> \o RemoveFrom(text, old, i + 1)

Remove(text, old) == RemoveFrom(text, old, 1)

TopicLimit == 3
NewRepoTopicChars == 60
NewRepoTextChars == 80
TrendingLimit == 5

\* one pass of the loop over narrative_probes
ProbeSignal(probe, count, stars) ==
    [source |-> "github",
     type |-> "narrative_probe",
     topic |-> Remove(probe["query"], <<"s", "o", "l", "a", "n", "a", " ">>),
     text |-> IntToStr(count) \o <<" ", "a", "c", "t", "i", "v", "e", " ", "r", "e", "p", "o", "s", " ", "m", "a", "t", "c", "h", "i", "n", "g", " ", "'">> \o probe["query"]
                  \o <<"'", " ", "w", "i", "t", "h", " ">> \o IntToStr(stars) \o <<" ", "c", "o", "m", "b", "i", "n", "e", "d", " ", "s", "t", "a", "r", "s">>,
     strength_raw |-> count]

ProbePass(probe) ==
    IF Get(probe, "count", 0) > 0
    THEN IF Has(probe, "query")
         THEN Ok(<<ProbeSignal(probe, Get(probe, "count", 0),
                                     Get(probe, "total_stars", 0))>>)
         ELSE Raised
    ELSE Ok(<<>>)

\* one pass of the loop over new_repos
NewRepoSignal(repo, topics, desc) ==
    [source |-> "github",
     type |-> "new_repo",
     topic |-> IF topics # <<>> THEN Join(Take(topics, TopicLimit), <<",", " ">>)
               ELSE Take(desc, NewRepoTopicChars),
     text |-> <<"N", "e", "w", " ", "r", "e", "p", "o", ":", " ">> \o repo["name"] \o <<" ", "(">> \o IntToStr(repo["stars"])
                  \o <<" ", "s", "t", "a", "r", "s", ")", " ">> \o EmDash \o <<" ">> \o Take(desc, NewRepoTextChars),
     strength_raw |-> IF repo["stars"] > 1 THEN repo["stars"] ELSE 1]

NewRepoPass(repo) ==
    IF Get(repo, "topics", <<>>) # <<>> \/ Get(repo, "description", <<>>) # <<>>
    THEN IF Has(repo, "stars") /\ Has(repo, "name")
         THEN Ok(<<NewRepoSignal(repo, Get(repo, "topics", <<>>),
                                       Get(repo, "description", <<>>))>>)
         ELSE Raised
    ELSE Ok(<<>>)

\* one pass of the loop over trending_repos[:5]
TrendingSignal(repo) ==
    [source |-> "github",
     type |-> "trending",
     topic |-> Join(Take(Get(repo, "topics", <<>>), TopicLimit), <<",", " ">>),
     text |-> <<"T", "r", "e", "n", "d", "i", "n", "g", ":", " ">> \o repo["name"] \o <<" ", "(">> \o IntToStr(repo["stars"])
                  \o <<" ", "s", "t", "a", "r", "s", ")">>,
     strength_raw |-> repo["stars"]]

TrendingPass(repo) ==
    IF Has(repo, "stars") /\ Has(repo, "name")
    THEN Ok(<<TrendingSignal(repo)>>)
    ELSE Raised

PassesOf(probes, new_repos, trending) ==
    Tuple([i \in 1..Len(probes) |-> ProbePass(probes[i])])
        \o Tuple([i \in 1..Len(new_repos) |-> NewRepoPass(new_repos[i])])
        \o Tuple([i \in 1..Len(trending) |-> TrendingPass(trending[i])])

extract_github_signals(github) ==
    Collect(PassesOf(Get(github, "narrative_probes", <<>>),
                     Get(github, "new_repos", <<>>),
                     Take(Get(github, "trending_repos", <<>>), TrendingLimit)))

(***************************************************************************)
(* engine.py, extract_social_signals.                                      *)
(***************************************************************************)
TopPostLimit == 5
TitleChars == 80
TopTagLimit == 10
TextTagLimit == 5
ForumItemLimit == 5
ForumTitleChars == 60

reddit_all(social) ==
    Get(Get(social, "reddit", <<>>), "solana", <<>>)
        \o Get(Get(social, "reddit", <<>>), "solanadev", <<>>)

\* sorted(reddit_all, key=score + comments, reverse=True)[:5]
top_posts(posts) ==
    Take(StableSortDesc(posts,
             Tuple([i \in 1..Len(posts) |->
                       Get(posts[i], "score", 0) + Get(posts[i], "comments", 0)])),
         TopPostLimit)

RedditSignal(post) ==
    [source |-> "social",
     type |-> "reddit",
     topic |-> Get(post, "flair", <<"d", "i", "s", "c", "u", "s", "s", "i", "o", "n">>),
     text |-> <<"R", "e", "d", "d", "i", "t", " ", "(">> \o IntToStr(post["score"]) \o UpArrow \o <<",", " ">>
                  \o IntToStr(post["comments"]) \o <<" ", "c", "o", "m", "m", "e", "n", "t", "s", ")", ":", " ", "\"">>
                  \o Take(post["title"], TitleChars) \o <<"\"">>,
     strength_raw |-> post["score"] + post["comments"] * 2]

RedditPass(post) ==
    IF Has(post, "score") /\ Has(post, "comments") /\ Has(post, "title")
    THEN Ok(<<RedditSignal(post)>>)
    ELSE Raised

RedditPasses(posts) == Tuple([i \in 1..Len(posts) |-> RedditPass(posts[i])])

\* tag_counts.most_common(10); an entry is [bigram |-> tag, count |-> its count]
top_tags(se) ==
    MostCommon(Counter(ConcatAll(Tuple([i \in 1..Len(se) |-> Get(se[i], "tags", <<>>)]))),
               TopTagLimit)

TagNames(tags) == Tuple([i \in 1..Len(tags) |-> tags[i].bigram])

QuestionsPass(se, tags) ==
    IF se # <<>> /\ tags # <<>>
    THEN Ok(<<[source |-> "social",
               type |-> "developer_questions",
               topic |-> <<"d", "e", "v", "e", "l", "o", "p", "e", "r", " ", "a", "c", "t", "i", "v", "i", "t", "y">>,
               text |-> IntToStr(Len(se)) \o <<" ", "a", "c", "t", "i", "v", "e", " ", "d", "e", "v", " ", "q", "u", "e", "s", "t", "i", "o", "n", "s", ",", " ", "t", "o", "p", " ", "t", "o", "p", "i", "c", "s", ":", " ">>
                            \o Join(Take(TagNames(tags), TextTagLimit), <<",", " ">>),
               strength_raw |-> Len(se)]>>)
    ELSE Ok(<<>>)

ForumPass(forum) ==
    IF forum = <<>>
    THEN Ok(<<>>)
    ELSE IF \A i \in 1..Len(Take(forum, ForumItemLimit)) : Has(forum[i], "title")
         THEN Ok(<<[source |-> "social",
                    type |-> "governance",
                    topic |-> <<"g", "o", "v", "e", "r", "n", "a", "n", "c", "e">>,
                    text |-> IntToStr(Len(forum)) \o <<" ", "r", "e", "c", "e", "n", "t", " ", "g", "o", "v", "e", "r", "n", "a", "n", "c", "e", " ", "d", "i", "s", "c", "u", "s", "s", "i", "o", "n", "s", ":", " ">>
                                 \o Take(forum[1]["title"], ForumTitleChars),
                    strength_raw |-> Len(forum)]>>)
         ELSE Raised

extract_social_signals(social) ==
    Collect(RedditPasses(top_posts(reddit_all(social)))
                \o <<QuestionsPass(Get(social, "stackexchange", <<>>),
                                   top_tags(Get(social, "stackexchange", <<>>)))>>
                \o <<ForumPass(Get(social, "forum", <<>>))>>)

(***************************************************************************)
(* engine.py, extract_defi_signals.  The model holds an amount of dollars  *)
(* in thousands and a percentage as a whole number; strength_raw is a      *)
(* whole number for the payloads of the model: averages of changes and     *)
(* amounts divided by 1e9 or 1e8 come out whole.                           *)
(***************************************************************************)
Thousand == 1000
CategoryMinTvl == 5000          \* 5_000_000 dollars
StablecoinMinMcap == 1000000    \* 1e9 dollars
GrowingMinChange == 10
Billion == 1000000              \* 1e9 dollars
HundredMillion == 100000        \* 1e8 dollars

Abs(n) == IF n < 0 THEN 0 - n ELSE n

\* format(n / 10, ".1f") and format(n / 100, ".2f") for n >= 0
Fixed1(n) == IntToStr(n \div 10) \o <<".">> \o IntToStr(n % 10)
Fixed2(n) == IntToStr(n \div 100) \o <<".">> \o IntToStr((n % 100) \div 10) \o IntToStr(n % 10)

\* format(pct, "+.1f") for a whole number
Signed1(pct) == (IF pct < 0 THEN <<"-">> ELSE <<"+">>) \o IntToStr(Abs(pct)) \o <<".", "0">>

\* format(amount / 1e9, ".2f"), format(amount / 1e9, ".1f"), format(amount / 1e6, ".0f")
Billions2(amount) == Fixed2(RoundHalfEven(amount, Billion \div 100))
Billions1(amount) == Fixed1(RoundHalfEven(amount, Billion \div 10))
Millions0(amount) == IntToStr(RoundHalfEven(amount, Thousand))

TvlPass(tvl_change, tvl_current) ==
    IF tvl_current # 0
    THEN Ok(<<[source |-> "defi",
               type |-> "tvl_trend",
               topic |-> IF tvl_change > 0 THEN <<"T", "V", "L", " ", "i", "n", "f", "l", "o", "w">> ELSE <<"T", "V", "L", " ", "o", "u", "t", "f", "l", "o", "w">>,
               text |-> <<"S", "o", "l", "a", "n", "a", " ", "T", "V", "L", ":", " ", "$">> \o Billions2(tvl_current) \o <<"B", " ", "(">>
                            \o Signed1(tvl_change) \o <<"%", " ", "i", "n", " ", "1", "4", "d", ")">>,
               strength_raw |-> Abs(tvl_change)]>>)
    ELSE Ok(<<>>)

\* the category of each protocol
Categories(protocols) ==
    Tuple([i \in 1..Len(protocols) |-> Get(protocols[i], "category", <<"O", "t", "h", "e", "r">>)])

\* the keys of cat_data in insertion order, as positions of their first protocol
FirstSeen(cats) ==
    SelectSeq(Tuple([i \in 1..Len(cats) |-> i]), LAMBDA i : \A j \in 1..(i - 1) : cats[j] # cats[i])

\* the protocols of one category, in order
Members(protocols, cats, cat) ==
    SelectSeq(Tuple([i \in 1..Len(protocols) |-> i]), LAMBDA i : cats[i] = cat)

\* cat_data[cat]
CategoryEntry(protocols, cat, members) ==
    [cat |-> cat,
     tvl |-> SeqSum(Tuple([k \in 1..Len(members) |-> Get(protocols[members[k]], "tvl_usd", 0)])),
     changes |-> SelectSeq(Tuple([k \in 1..Len(members) |->
                                     Get(protocols[members[k]], "change_7d_pct", 0)]),
                           LAMBDA c : c # 0),
     protocols |-> Len(members)]

cat_data(protocols, cats, first) ==
    Tuple([k \in 1..Len(first) |->
              CategoryEntry(protocols, cats[first[k]], Members(protocols, cats, cats[first[k]]))])

\* sum(changes) / len(changes) if changes else 0
avg_change(changes) == IF changes = <<>> THEN 0 ELSE SeqSum(changes) \div Len(changes)

CategorySignal(d, avg) ==
    [source |-> "defi",
     type |-> "category",
     topic |-> d.cat,
     text |-> d.cat \o <<":", " ", "$">> \o Millions0(d.tvl) \o <<"M", " ", "T", "V", "L", " ", "a", "c", "r", "o", "s", "s", " ">>
                  \o IntToStr(d.protocols) \o <<" ", "p", "r", "o", "t", "o", "c", "o", "l", "s", " ", "(">> \o Signed1(avg)
                  \o <<"%", " ", "a", "v", "g", " ", "7", "d", ")">>,
     strength_raw |-> IF avg # 0 THEN Abs(avg) ELSE d.tvl \div Billion]

\* the signals of the categories above $5M
SignalsOf(kept) ==
    Tuple([k \in 1..Len(kept) |-> CategorySignal(kept[k], avg_change(kept[k].changes))])

\* for cat, d in sorted(cat_data.items(), key=tvl, reverse=True): if d["tvl"] > 5_000_000
CategorySignals(data) ==
    SignalsOf(SelectSeq(StableSortDesc(data, Tuple([k \in 1..Len(data) |-> data[k].tvl])),
                        LAMBDA d : d.tvl > CategoryMinTvl))

ProtocolsPass(protocols) ==
    IF \E i \in DOMAIN protocols : ~Has(protocols[i], "name")
    THEN Raised
    ELSE Ok(CategorySignals(cat_data(protocols, Categories(protocols),
                                     FirstSeen(Categories(protocols)))))

FeesSignal(total_fees_24h, growing) ==
    [source |-> "defi",
     type |-> "fees",
     topic |-> <<"p", "r", "o", "t", "o", "c", "o", "l", " ", "r", "e", "v", "e", "n", "u", "e">>,
     text |-> <<"$">> \o IntToStr(total_fees_24h) \o <<"K", " ", "d", "a", "i", "l", "y", " ", "p", "r", "o", "t", "o", "c", "o", "l", " ", "f", "e", "e", "s", ",", " ">>
                  \o IntToStr(growing) \o <<" ", "p", "r", "o", "t", "o", "c", "o", "l", "s", " ", "w", "i", "t", "h", " ", ">", "1", "0", "%", " ", "w", "e", "e", "k", "l", "y", " ", "f", "e", "e", " ", "g", "r", "o", "w", "t", "h">>,
     strength_raw |-> total_fees_24h]

FeesPass(fees) ==
    IF fees = <<>>
    THEN Ok(<<>>)
    ELSE Ok(<<FeesSignal(
                 SeqSum(Tuple([i \in 1..Len(fees) |-> Get(fees[i], "fees_24h", 0)])),
                 Cardinality({i \in DOMAIN fees :
                                 Get(fees[i], "change_7d_pct", 0) > GrowingMinChange}))>>)

MajorStables == {<<"U", "S", "D", "C">>, <<"U", "S", "D", "T">>}

StablesSignal(total_stable, non_usdc_usdt) ==
    [source |-> "defi",
     type |-> "stablecoins",
     topic |-> <<"s", "t", "a", "b", "l", "e", "c", "o", "i", "n", " ", "e", "c", "o", "s", "y", "s", "t", "e", "m">>,
     text |-> <<"$">> \o Billions1(total_stable) \o <<"B", " ", "s", "t", "a", "b", "l", "e", "c", "o", "i", "n", " ", "s", "u", "p", "p", "l", "y", ",", " ", "$">>
                  \o Millions0(non_usdc_usdt) \o <<"M", " ", "i", "n", " ", "n", "o", "n", "-", "U", "S", "D", "C", "/", "U", "S", "D", "T", " ", "s", "t", "a", "b", "l", "e", "s">>,
     strength_raw |-> total_stable \div Billion]

NonMajor(assets) ==
    SelectSeq(assets, LAMBDA s : s["symbol"] \notin MajorStables)

StablesPass(total_stable, assets) ==
    IF total_stable > StablecoinMinMcap
    THEN IF \/ \E i \in DOMAIN assets : ~Has(assets[i], "symbol")
            \/ \E i \in DOMAIN assets :
                   /\ Has(assets[i], "symbol")
                   /\ assets[i]["symbol"] \notin MajorStables
                   /\ ~Has(assets[i], "mcap_usd")
         THEN Raised
         ELSE Ok(<<StablesSignal(total_stable,
                      SeqSum(Tuple([i \in 1..Len(NonMajor(assets)) |->
                                       NonMajor(assets)[i]["mcap_usd"]])))>>)
    ELSE Ok(<<>>)

DexPass(dex_24h, dex_change) ==
    IF dex_24h # 0
    THEN Ok(<<[source |-> "defi",
               type |-> "dex_volume",
               topic |-> <<"D", "E", "X", " ", "t", "r", "a", "d", "i", "n", "g">>,
               text |-> <<"$">> \o Millions0(dex_24h) \o <<"M", " ", "d", "a", "i", "l", "y", " ", "D", "E", "X", " ", "v", "o", "l", "u", "m", "e", " ", "(">>
                            \o Signed1(dex_change) \o <<"%", " ", "W", "o", "W", ")">>,
               strength_raw |-> IF dex_change # 0 THEN Abs(dex_change)
                                ELSE dex_24h \div HundredMillion]>>)
    ELSE Ok(<<>>)

extract_defi_signals(defi) ==
    Collect(<<TvlPass(Get(Get(defi, "tvl", <<>>), "change_14d_pct", 0),
                      Get(Get(defi, "tvl", <<>>), "current_usd", 0)),
              ProtocolsPass(Get(defi, "protocols", <<>>)),
              FeesPass(Get(defi, "fees", <<>>)),
              StablesPass(Get(Get(defi, "stablecoins", <<>>), "total_mcap_usd", 0),
                          Get(Get(defi, "stablecoins", <<>>), "assets", <<>>)),
              DexPass(Get(Get(defi, "dex", <<>>), "total_24h_usd", 0),
                      Get(Get(defi, "dex", <<>>), "change_7d_pct", 0))>>)

(***************************************************************************)
(* IEEE-754 doubles.  A score of t tenths is held by the program as the    *)
(* double nearest to t/10.  BinExp(t) is k with 2^(k-4) <= t/10 < 2^(k-3), *)
(* so the double's spacing is 2^(k-56).  DoubleErr(t) is the double minus  *)
(* t/10, exactly, in units of 2^-56 / 10: the remainder of t * 2^(56-k)    *)
(* modulo 10 decides which way the 53-bit mantissa rounds.                 *)
(***************************************************************************)
RECURSIVE Pow2(_)
Pow2(n) == IF n = 0 THEN 1 ELSE 2 * Pow2(n - 1)

BinExp(t) == CHOOSE k \in 0..10 : 10 * Pow2(k) <= 16 * t /\ 16 * t < 20 * Pow2(k)

Pow2Mod10(n) == CASE n % 4 = 1 -> 2 [] n % 4 = 2 -> 4 [] n % 4 = 3 -> 8 [] OTHER -> 6

DoubleErr(t) ==
    IF t = 0 THEN 0
    ELSE LET k == BinExp(t)
             q == ((t % 10) * Pow2Mod10(56 - k)) % 10
         IN  (IF q < 5 THEN 0 - q ELSE 10 - q) * Pow2(k)

(***************************************************************************)
(* snapshots.py, compute_deltas, lines 68-75: change = curr_score -        *)
(* prev_scores[name] is a double subtraction.  When the two scores differ  *)
(* by exactly 5.0 in decimal, the doubles differ by 5 + (DoubleErr(c) -    *)
(* DoubleErr(p)) units, and the subtraction rounds that to a double next   *)
(* to 5.0 (spacing 2^-50 = 640 units): the result exceeds 5 exactly when   *)
(* the error term exceeds half a spacing.  Any other decimal difference is *)
(* at least 0.1 away from 5, far more than the error.                      *)
(***************************************************************************)
ChangeGt5(c, p) == c - p > 50 \/ (c - p = 50 /\ DoubleErr(c) - DoubleErr(p) > 320)

ChangeLtMinus5(c, p) == c - p < -50 \/ (c - p = -50 /\ DoubleErr(c) - DoubleErr(p) < -320)

\* round(change, 1), in tenths: the double's error is far below 0.05.
RoundedChange(c, p) == c - p

(***************************************************************************)
(* snapshots.py, compute_deltas.  `prev` is what load_previous_snapshot    *)
(* returned: kind "none" is None, "empty" a falsy JSON value ({} or []),   *)
(* "snapshot" a dict as save_snapshot writes it, "wrongshape" any other    *)
(* JSON value (a list, a number, a string), on which previous.get raises.  *)
(***************************************************************************)
\* prev_scores[name]: a later entry of the same name replaces an earlier one.
PrevScore(narrs, name) ==
    LET idx == {i \in DOMAIN narrs : narrs[i].name = name}
    IN  narrs[CHOOSE i \in idx : \A j \in idx : j <= i].score

PrevNames(narrs) == {narrs[i].name : i \in DOMAIN narrs}

DeltaLabel(c, p) ==
    IF ChangeGt5(c, p) THEN "rising"
    ELSE IF ChangeLtMinus5(c, p) THEN "fading"
    ELSE "stable"

\* a faulty "new" entry: score_change 0
MutDeltaNewZero(n) == [name |-> n.name, delta |-> "new", score_change |-> 0]

DeltaNew(n) == [name |-> n.name, delta |-> "new", score_change |-> n.score]

\* a faulty entry of a known narrative: previous minus current
MutDeltaKnownReversed(n, p) ==
    [name |-> n.name, delta |-> DeltaLabel(n.score, p),
     score_change |-> RoundedChange(p, n.score)]

DeltaKnown(n, p) ==
    [name |-> n.name, delta |-> DeltaLabel(n.score, p),
     score_change |-> RoundedChange(n.score, p)]

\* previous = None
NoPrevious == [kind |-> "none", narratives |-> <<>>]

compute_deltas(cur, prev) ==
    IF prev.kind \in {"none", "empty"}
    THEN [raised |-> FALSE,
          out |-> Tuple([i \in 1..Len(cur) |->
                      [name |-> cur[i].name, delta |-> "new", score_change |-> 0]])]
    ELSE IF prev.kind = "wrongshape"
    THEN [raised |-> TRUE, out |-> <<>>]
    ELSE [raised |-> FALSE,
          out |-> Tuple([i \in 1..Len(cur) |->
                      IF cur[i].name \notin PrevNames(prev.narratives)
                      THEN DeltaNew(cur[i])
                      ELSE DeltaKnown(cur[i], PrevScore(prev.narratives, cur[i].name))])]

(***************************************************************************)
(* snapshots.py, the snapshot store.  A file is [kind, narratives, writer]:*)
(* kind "snapshot" is a file as save_snapshot wrote it; "unparseable" is a *)
(* file that read_text or json.loads raises on; "empty" is a JSON value    *)
(* that is falsy in Python ({} or []); "wrongshape" is any other JSON      *)
(* value that is not a snapshot (a list, a narrative without "score").     *)
(* writer is history: the number of the execution that wrote the file.     *)
(* File names are snapshot_<%Y%m%d_%H%M%S>.json, so a name is a second of  *)
(* the clock and the names sort in the order of the seconds.               *)
(***************************************************************************)
None == -1

\* the summary of one narrative in a snapshot
Summary(n) ==
    [name |-> n.name, score |-> n.score, signal_count |-> n.signal_count,
     sources |-> n.sources, discovered |-> n.discovered]

\* a faulty save_snapshot: one file name for every run
MutSaveFixedName(fs, narrs, ts, writer) ==
    [t \in DOMAIN fs \cup {0} |->
        IF t = 0
        THEN [kind |-> "snapshot", writer |-> writer,
              narratives |-> Tuple([i \in 1..Len(narrs) |-> Summary(narrs[i])])]
        ELSE fs[t]]

\* save_snapshot at second ts: path.write_text creates the file or replaces it
save_snapshot(fs, narrs, ts, writer) ==
    [t \in DOMAIN fs \cup {ts} |->
        IF t = ts
        THEN [kind |-> "snapshot", writer |-> writer,
              narratives |-> Tuple([i \in 1..Len(narrs) |-> Summary(narrs[i])])]
        ELSE fs[t]]

\* sorted(SNAPSHOT_DIR.glob("snapshot_*.json"))
SortedSnapshots(fs) ==
    LET names == DOMAIN fs
    IN  Tuple([k \in 1..Cardinality(names) |->
                  CHOOSE t \in names : Cardinality({u \in names : u < t}) = k - 1])

\* a faulty load_previous_snapshot: snapshots[-1]
MutLastSnapshot(fs) ==
    LET snapshots == SortedSnapshots(fs)
    IN  IF Len(snapshots) < 2 THEN None ELSE snapshots[Len(snapshots)]

\* the file load_previous_snapshot reads, snapshots[-2], or None
PreviousFile(fs) ==
    LET snapshots == SortedSnapshots(fs)
    IN  IF Len(snapshots) < 2 THEN None ELSE snapshots[Len(snapshots) - 1]

\* load_previous_snapshot: the parsed JSON value, or None
load_previous_snapshot(fs) ==
    LET f == PreviousFile(fs)
    IN  IF f = None THEN NoPrevious
        ELSE IF fs[f].kind = "unparseable" THEN NoPrevious
        ELSE [kind |-> fs[f].kind, narratives |-> fs[f].narratives]

(***************************************************************************)
(* main.py, run_pipeline.  The only await of run_pipeline is the gather of *)
(* the collectors, so a call is two steps: Begin, up to the await, and     *)
(* Complete, from the results of the collectors to the return.  Of the     *)
(* result and of the snapshot the model keeps what the snapshot store, the *)
(* delta computation and the cache read; the ideas, the statistics and the *)
(* dashboard data are left out.                                            *)
(***************************************************************************)
CACHE_TTL_SECONDS == 3600

\* The calls of run_pipeline that can be in flight together.  With one, the
\* executions of the pipeline run one after another.
Requests == {"a"}

\* What the collectors and the signal extractors hand to discover_narratives.
CollectedInputs == {
    \* one DeFi signal, topic "Payment", text "agent"
    [signals |-> <<[source |-> "defi", topic |-> <<"P", "a", "y", "m", "e", "n", "t">>,
                    text |-> <<"a", "g", "e", "n", "t">>, strength_raw |-> 4]>>,
     corpus |-> <<>>],
    \* the same, after a GitHub signal, topic "AI", text "Agent kit"
    [signals |-> <<[source |-> "github", topic |-> <<"A", "I">>,
                    text |-> <<"A", "g", "e", "n", "t", " ", "k", "i", "t">>,
                    strength_raw |-> 3],
                   [source |-> "defi", topic |-> <<"P", "a", "y", "m", "e", "n", "t">>,
                    text |-> <<"a", "g", "e", "n", "t">>, strength_raw |-> 4]>>,
     corpus |-> <<>>]
    }

\* the ranked lists discover_narratives returns for them
RankedLists == {discover_narratives(c.signals, c.corpus) : c \in CollectedInputs}

\* delta_map.get(n["name"], {}): a later delta of the same name replaces an earlier one
DeltaOf(ds, name) ==
    LET idx == {i \in DOMAIN ds : ds[i].name = name}
    IN  ds[CHOOSE i \in idx : \A j \in idx : j <= i]

\* the narratives with "delta" and "score_change" attached
WithDeltas(narrs, ds) ==
    Tuple([i \in 1..Len(narrs) |->
              [name |-> narrs[i].name, score |-> narrs[i].score,
               delta |-> IF \E j \in DOMAIN ds : ds[j].name = narrs[i].name
                         THEN DeltaOf(ds, narrs[i].name).delta ELSE "new",
               score_change |-> IF \E j \in DOMAIN ds : ds[j].name = narrs[i].name
                                THEN DeltaOf(ds, narrs[i].name).score_change ELSE 0]])

NoResult == [generated_at |-> None, narratives |-> <<>>, deltas |-> <<>>,
             has_previous |-> FALSE]

\* `last` before any call has returned
NoCall == [kind |-> "none", result |-> NoResult, snapshots |-> 0,
           read |-> "absent", writer |-> 0]
(***************************************************************************)
(* Several specifications share the variables of this module.  Each one    *)
(* leaves the variables of the others at the idle values defined here.     *)
(***************************************************************************)
NoDeltas == [done |-> FALSE, raised |-> FALSE, out |-> <<>>]

DeltaIdle == current = <<>> /\ previous = NoPrevious /\ deltas = NoDeltas
NormIdle == values = <<>> /\ normalized = [done |-> FALSE, out |-> <<>>]
DiscIdle ==
    /\ all_signals = <<>>
    /\ text_corpus = <<>>
    /\ theme_signals = [t \in ThemeIds |-> <<>>]
    /\ narratives = [done |-> FALSE, out |-> <<>>]

PipeIdle ==
    /\ clock = 0
    /\ ticks = 0
    /\ files = <<>>
    /\ pc = [r \in Requests |-> "idle"]
    /\ now = [r \in Requests |-> None]
    /\ _cache = <<>>
    /\ _cache_time = None
    /\ runs = <<>>
    /\ last = NoCall

ScoreIdle == themes = <<>> /\ raw_scores = [done |-> FALSE, out |-> <<>>]
FactorIdle == signal_counts = <<>> /\ factors = [done |-> FALSE, out |-> <<>>]

MinerIdle == miner_corpus = <<>> /\ unknown_themes = [done |-> FALSE, out |-> <<>>]

IdeaIdle == ranked_narratives = <<>> /\ ideas = [done |-> FALSE, out |-> <<>>]

NoPayloads == [github |-> <<>>, defi |-> <<>>, social |-> <<>>]
NotExtracted == [done |-> FALSE, github |-> Raised, defi |-> Raised, social |-> Raised]
ExtractIdle == payloads = NoPayloads /\ extracted = NotExtracted


\* a collector that has not ended, one that raised, one that returned a dict
Pending == [kind |-> "pending", data |-> <<>>]
Failure == [kind |-> "exception", data |-> <<>>]
Success(data) == [kind |-> "dict", data |-> data]

NotGathered == [pc |-> "idle", github |-> Pending, defi |-> Pending, social |-> Pending]
NotRun == [kind |-> "none", all_signals |-> <<>>, narratives |-> <<>>, ideas |-> <<>>,
           deltas |-> <<>>, has_previous |-> FALSE]
CollectIdle == gathered = NotGathered /\ snapshot_dir = <<>> /\ pipeline = NotRun

RematchIdle == matcher_signals = <<>> /\ catalog = <<>> /\ assignments = <<>>

RawIdle == scored_signals = <<>> /\ raw_score = [done |-> FALSE, out |-> 0]

LoopIdle ==
    /\ calls = <<>> /\ running = "none" /\ wall = [second |-> 0, ticks |-> 0]
    /\ disk = <<>> /\ globals = <<>> /\ journal = <<>>

GetIdle == gh_call = <<>>

SemIdle == gh_tasks = <<>> /\ _sem = <<>>
(***************************************************************************)
(* For each specification: the variables of all the others, and the       *)
(* predicate that holds when all the others are idle.                     *)
(***************************************************************************)
exceptNorm == <<deltaVars, discVars, pipeVars, scoreVars, factorVars, minerVars, ideaVars, extractVars, collectVars, rematchVars, rawVars, loopVars, getVars, semVars>>
IdleExceptNorm == DeltaIdle /\ DiscIdle /\ PipeIdle /\ ScoreIdle /\ FactorIdle /\ MinerIdle /\ IdeaIdle /\ ExtractIdle /\ CollectIdle /\ RematchIdle /\ RawIdle /\ LoopIdle /\ GetIdle /\ SemIdle

exceptDelta == <<normVars, discVars, pipeVars, scoreVars, factorVars, minerVars, ideaVars, extractVars, collectVars, rematchVars, rawVars, loopVars, getVars, semVars>>
IdleExceptDelta == NormIdle /\ DiscIdle /\ PipeIdle /\ ScoreIdle /\ FactorIdle /\ MinerIdle /\ IdeaIdle /\ ExtractIdle /\ CollectIdle /\ RematchIdle /\ RawIdle /\ LoopIdle /\ GetIdle /\ SemIdle

exceptDisc == <<normVars, deltaVars, pipeVars, scoreVars, factorVars, minerVars, ideaVars, extractVars, collectVars, rematchVars, rawVars, loopVars, getVars, semVars>>
IdleExceptDisc == NormIdle /\ DeltaIdle /\ PipeIdle /\ ScoreIdle /\ FactorIdle /\ MinerIdle /\ IdeaIdle /\ ExtractIdle /\ CollectIdle /\ RematchIdle /\ RawIdle /\ LoopIdle /\ GetIdle /\ SemIdle

exceptPipe == <<normVars, deltaVars, discVars, scoreVars, factorVars, minerVars, ideaVars, extractVars, collectVars, rematchVars, rawVars, loopVars, getVars, semVars>>
IdleExceptPipe == NormIdle /\ DeltaIdle /\ DiscIdle /\ ScoreIdle /\ FactorIdle /\ MinerIdle /\ IdeaIdle /\ ExtractIdle /\ CollectIdle /\ RematchIdle /\ RawIdle /\ LoopIdle /\ GetIdle /\ SemIdle

exceptScore == <<normVars, deltaVars, discVars, pipeVars, factorVars, minerVars, ideaVars, extractVars, collectVars, rematchVars, rawVars, loopVars, getVars, semVars>>
IdleExceptScore == NormIdle /\ DeltaIdle /\ DiscIdle /\ PipeIdle /\ FactorIdle /\ MinerIdle /\ IdeaIdle /\ ExtractIdle /\ CollectIdle /\ RematchIdle /\ RawIdle /\ LoopIdle /\ GetIdle /\ SemIdle

exceptFactor == <<normVars, deltaVars, discVars, pipeVars, scoreVars, minerVars, ideaVars, extractVars, collectVars, rematchVars, rawVars, loopVars, getVars, semVars>>
IdleExceptFactor == NormIdle /\ DeltaIdle /\ DiscIdle /\ PipeIdle /\ ScoreIdle /\ MinerIdle /\ IdeaIdle /\ ExtractIdle /\ CollectIdle /\ RematchIdle /\ RawIdle /\ LoopIdle /\ GetIdle /\ SemIdle

exceptMiner == <<normVars, deltaVars, discVars, pipeVars, scoreVars, factorVars, ideaVars, extractVars, collectVars, rematchVars, rawVars, loopVars, getVars, semVars>>
IdleExceptMiner == NormIdle /\ DeltaIdle /\ DiscIdle /\ PipeIdle /\ ScoreIdle /\ FactorIdle /\ IdeaIdle /\ ExtractIdle /\ CollectIdle /\ RematchIdle /\ RawIdle /\ LoopIdle /\ GetIdle /\ SemIdle

exceptIdea == <<normVars, deltaVars, discVars, pipeVars, scoreVars, factorVars, minerVars, extractVars, collectVars, rematchVars, rawVars, loopVars, getVars, semVars>>
IdleExceptIdea == NormIdle /\ DeltaIdle /\ DiscIdle /\ PipeIdle /\ ScoreIdle /\ FactorIdle /\ MinerIdle /\ ExtractIdle /\ CollectIdle /\ RematchIdle /\ RawIdle /\ LoopIdle /\ GetIdle /\ SemIdle

exceptExtract == <<normVars, deltaVars, discVars, pipeVars, scoreVars, factorVars, minerVars, ideaVars, collectVars, rematchVars, rawVars, loopVars, getVars, semVars>>
IdleExceptExtract == NormIdle /\ DeltaIdle /\ DiscIdle /\ PipeIdle /\ ScoreIdle /\ FactorIdle /\ MinerIdle /\ IdeaIdle /\ CollectIdle /\ RematchIdle /\ RawIdle /\ LoopIdle /\ GetIdle /\ SemIdle

exceptCollect == <<normVars, deltaVars, discVars, pipeVars, scoreVars, factorVars, minerVars, ideaVars, extractVars, rematchVars, rawVars, loopVars, getVars, semVars>>
IdleExceptCollect == NormIdle /\ DeltaIdle /\ DiscIdle /\ PipeIdle /\ ScoreIdle /\ FactorIdle /\ MinerIdle /\ IdeaIdle /\ ExtractIdle /\ RematchIdle /\ RawIdle /\ LoopIdle /\ GetIdle /\ SemIdle

exceptRematch == <<normVars, deltaVars, discVars, pipeVars, scoreVars, factorVars, minerVars, ideaVars, extractVars, collectVars, rawVars, loopVars, getVars, semVars>>
IdleExceptRematch == NormIdle /\ DeltaIdle /\ DiscIdle /\ PipeIdle /\ ScoreIdle /\ FactorIdle /\ MinerIdle /\ IdeaIdle /\ ExtractIdle /\ CollectIdle /\ RawIdle /\ LoopIdle /\ GetIdle /\ SemIdle

exceptRaw == <<normVars, deltaVars, discVars, pipeVars, scoreVars, factorVars, minerVars, ideaVars, extractVars, collectVars, rematchVars, loopVars, getVars, semVars>>
IdleExceptRaw == NormIdle /\ DeltaIdle /\ DiscIdle /\ PipeIdle /\ ScoreIdle /\ FactorIdle /\ MinerIdle /\ IdeaIdle /\ ExtractIdle /\ CollectIdle /\ RematchIdle /\ LoopIdle /\ GetIdle /\ SemIdle

exceptLoop == <<normVars, deltaVars, discVars, pipeVars, scoreVars, factorVars, minerVars, ideaVars, extractVars, collectVars, rematchVars, rawVars, getVars, semVars>>
IdleExceptLoop == NormIdle /\ DeltaIdle /\ DiscIdle /\ PipeIdle /\ ScoreIdle /\ FactorIdle /\ MinerIdle /\ IdeaIdle /\ ExtractIdle /\ CollectIdle /\ RematchIdle /\ RawIdle /\ GetIdle /\ SemIdle

exceptGet == <<normVars, deltaVars, discVars, pipeVars, scoreVars, factorVars, minerVars, ideaVars, extractVars, collectVars, rematchVars, rawVars, loopVars, semVars>>
IdleExceptGet == NormIdle /\ DeltaIdle /\ DiscIdle /\ PipeIdle /\ ScoreIdle /\ FactorIdle /\ MinerIdle /\ IdeaIdle /\ ExtractIdle /\ CollectIdle /\ RematchIdle /\ RawIdle /\ LoopIdle /\ SemIdle

exceptSem == <<normVars, deltaVars, discVars, pipeVars, scoreVars, factorVars, minerVars, ideaVars, extractVars, collectVars, rematchVars, rawVars, loopVars, getVars>>
IdleExceptSem == NormIdle /\ DeltaIdle /\ DiscIdle /\ PipeIdle /\ ScoreIdle /\ FactorIdle /\ MinerIdle /\ IdeaIdle /\ ExtractIdle /\ CollectIdle /\ RematchIdle /\ RawIdle /\ LoopIdle /\ GetIdle
(***************************************************************************)
(* Specification SpecNorm: _normalize_scores applied to every list of at   *)
(* most MaxLen raw scores in 0..MaxRaw.                                    *)
(***************************************************************************)
InitNorm ==
    /\ values \in SeqsOf(0..MaxRaw, 0, MaxLen)
    /\ normalized = [done |-> FALSE, out |-> <<>>]
    /\ IdleExceptNorm

Normalize ==
    /\ ~normalized.done
    /\ normalized' = [done |-> TRUE, out |-> _normalize_scores(values)]
    /\ UNCHANGED <<values, exceptNorm>>

SpecNorm == InitNorm /\ [][Normalize]_vars

(***************************************************************************)
(* Specification SpecDelta: compute_deltas applied to every current list   *)
(* (distinct names, at most MaxCurrent narratives) and every previous      *)
(* value.                                                                  *)
(***************************************************************************)
DeltaNames == {"X", "Y", "Z"}
ScorePool == {33, 83, 400, 430, 450, 470}

DistinctNames(s) == \A i, j \in DOMAIN s : i # j => s[i].name # s[j].name

NarrLists(n) ==
    {s \in SeqsOf([name : DeltaNames, score : ScorePool], 0, n) : DistinctNames(s)}

PreviousValues ==
    {[kind |-> k, narratives |-> <<>>] : k \in {"none", "empty", "wrongshape"}}
    \cup {[kind |-> "snapshot", narratives |-> s] : s \in NarrLists(MaxPrevious)}

InitDelta ==
    /\ current \in NarrLists(MaxCurrent)
    /\ previous \in PreviousValues
    /\ deltas = NoDeltas
    /\ IdleExceptDelta

ComputeDeltas ==
    /\ ~deltas.done
    /\ LET r == compute_deltas(current, previous)
       IN  deltas' = [done |-> TRUE, raised |-> r.raised, out |-> r.out]
    /\ UNCHANGED <<current, previous, exceptDelta>>

SpecDelta == InitDelta /\ [][ComputeDeltas]_vars

(***************************************************************************)
(* Specification SpecDisc: discover_narratives applied to every list of at *)
(* most MaxSignals signals of SignalPool and every corpus of at most       *)
(* MaxCorpus snippets of SnippetPool.                                      *)
(***************************************************************************)
SignalPool == {
    \* topic 'AI', text 'Agent kit'
    [source |-> "github", topic |-> <<"A", "I">>,
     text |-> <<"A", "g", "e", "n", "t", " ", "k", "i", "t">>, strength_raw |-> 3],
    \* topic '', text 'zk proof of play'
    [source |-> "github", topic |-> <<>>,
     text |-> <<"z", "k", " ", "p", "r", "o", "o", "f", " ", "o", "f", " ", "p", "l", "a", "y">>, strength_raw |-> 27],
    \* topic 'misc', text 'hello world'
    [source |-> "social", topic |-> <<"m", "i", "s", "c">>,
     text |-> <<"h", "e", "l", "l", "o", " ", "w", "o", "r", "l", "d">>, strength_raw |-> 1],
    \* topic 'Payment', text 'agent'
    [source |-> "defi", topic |-> <<"P", "a", "y", "m", "e", "n", "t">>,
     text |-> <<"a", "g", "e", "n", "t">>, strength_raw |-> 4]
    }

SnippetPool == {
    \* 'meme coin meme coin'
    <<"m", "e", "m", "e", " ", "c", "o", "i", "n", " ", "m", "e", "m", "e", " ", "c", "o", "i", "n">>,
    \* 'solana meme coin is up'
    <<"s", "o", "l", "a", "n", "a", " ", "m", "e", "m", "e", " ", "c", "o", "i", "n", " ", "i", "s", " ", "u", "p">>,
    \* 'agent swarm agent swarm agent swarm'
    <<"a", "g", "e", "n", "t", " ", "s", "w", "a", "r", "m", " ", "a", "g", "e", "n", "t", " ", "s", "w", "a", "r", "m", " ", "a", "g", "e", "n", "t", " ", "s", "w", "a", "r", "m">>
    }

InitDisc ==
    /\ all_signals \in SeqsOf(SignalPool, 0, MaxSignals)
    /\ text_corpus \in SeqsOf(SnippetPool, 0, MaxCorpus)
    /\ theme_signals = [t \in ThemeIds |-> <<>>]
    /\ narratives = [done |-> FALSE, out |-> <<>>]
    /\ IdleExceptDisc

DiscoverNarratives ==
    /\ ~narratives.done
    /\ theme_signals' = ThemeSignals(all_signals)
    /\ narratives' = [done |-> TRUE, out |-> RankedNarratives(theme_signals', text_corpus)]
    /\ UNCHANGED <<all_signals, text_corpus, exceptDisc>>

SpecDisc == InitDisc /\ [][DiscoverNarratives]_vars

(***************************************************************************)
(* Specification Spec: the pipeline.  The calls of run_pipeline follow one *)
(* another, the clock advances between their steps, and the files of       *)
(* SNAPSHOT_DIR can be damaged from outside the program.  The clock never  *)
(* goes back.                                                              *)
(***************************************************************************)
Init ==
    /\ PipeIdle
    /\ IdleExceptPipe

Collecting == {q \in Requests : pc[q] = "collecting"}

\* run_pipeline(force) up to the await of the collectors: the cached result is
\* returned, or the collection starts
Begin(r, force) ==
    /\ pc[r] = "idle"
    /\ IF ~force /\ _cache # <<>> /\ _cache_time # None
          /\ clock - _cache_time < CACHE_TTL_SECONDS
       THEN /\ last' = [kind |-> "cached", result |-> _cache[1],
                        snapshots |-> 0, read |-> "absent", writer |-> 0]
            /\ UNCHANGED <<pc, now>>
       ELSE /\ Len(runs) + Cardinality(Collecting) < MaxRuns
            /\ pc' = [pc EXCEPT ![r] = "collecting"]
            /\ now' = [now EXCEPT ![r] = clock]
            /\ UNCHANGED last
    /\ UNCHANGED <<clock, ticks, files, _cache, _cache_time, runs>>
    /\ UNCHANGED exceptPipe

\* run_pipeline from the results of the collectors to the return: the narratives
\* are ranked, the snapshot is saved, the previous one is loaded, the deltas are
\* computed and attached, the cache is filled.  An exception of compute_deltas
\* leaves run_pipeline after the snapshot was saved.
Complete(r) ==
    /\ pc[r] = "collecting"
    /\ \E ranked \in RankedLists :
          LET saved == save_snapshot(files, ranked, clock, Len(runs) + 1)
              f == PreviousFile(saved)
              loaded == load_previous_snapshot(saved)
              computed == compute_deltas(ranked, loaded)
              result == [generated_at |-> now[r],
                         narratives |-> WithDeltas(ranked, computed.out),
                         deltas |-> computed.out,
                         has_previous |-> (loaded.kind # "none")]
          IN  /\ files' = saved
              /\ runs' = Append(runs, clock)
              /\ IF computed.raised
                 THEN /\ last' = [kind |-> "raised", result |-> NoResult,
                                  snapshots |-> Cardinality(DOMAIN saved),
                                  read |-> saved[f].kind, writer |-> saved[f].writer]
                      /\ UNCHANGED <<_cache, _cache_time>>
                 ELSE /\ last' = [kind |-> "executed", result |-> result,
                                  snapshots |-> Cardinality(DOMAIN saved),
                                  read |-> IF f = None THEN "absent" ELSE saved[f].kind,
                                  writer |-> IF f = None THEN 0 ELSE saved[f].writer]
                      /\ _cache' = <<result>>
                      /\ _cache_time' = now[r]
    /\ pc' = [pc EXCEPT ![r] = "idle"]
    /\ now' = [now EXCEPT ![r] = None]
    /\ UNCHANGED <<clock, ticks>>
    /\ UNCHANGED exceptPipe

\* datetime.now(timezone.utc) advances, by a second or by the time to live of the cache
Tick(d) ==
    /\ ticks < MaxTicks
    /\ clock' = clock + d
    /\ ticks' = ticks + 1
    /\ UNCHANGED <<files, pc, now, _cache, _cache_time, runs, last>>
    /\ UNCHANGED exceptPipe

\* a snapshot file is damaged or replaced from outside the program
Corrupt(t, kind) ==
    /\ t \in DOMAIN files
    /\ files[t].kind = "snapshot"
    /\ Cardinality({u \in DOMAIN files : files[u].kind # "snapshot"}) < MaxDamaged
    /\ files' = [files EXCEPT ![t] = [kind |-> kind, writer |-> files[t].writer,
                                      narratives |-> <<>>]]
    /\ UNCHANGED <<clock, ticks, pc, now, _cache, _cache_time, runs, last>>
    /\ UNCHANGED exceptPipe

Next ==
    \/ \E r \in Requests, force \in BOOLEAN : Begin(r, force)
    \/ \E r \in Requests : Complete(r)
    \/ \E d \in {1, CACHE_TTL_SECONDS} : Tick(d)
    \/ \E t \in DOMAIN files, kind \in {"unparseable", "empty", "wrongshape"} : Corrupt(t, kind)

Spec == Init /\ [][Next]_vars
(***************************************************************************)
(* Specification SpecScore: the scoring loop of discover_narratives        *)
(* applied to the signal lists of two themes that hold the same number of  *)
(* signals with the same average strength.  Only the fields the loop reads *)
(* are kept in a signal.                                                   *)
(***************************************************************************)
ScoreSources == {"github", "defi"}
ScoredSignals == [source : ScoreSources, strength_raw : 0..MaxStrength]
ScoredLists == SeqsOf(ScoredSignals, 1, MaxSignals)

\* the lists of n signals whose strengths add up to total
ScoredListsOf(n, total) ==
    {x \in ScoredLists :
        /\ Len(x) = n
        /\ SeqSum(Tuple([i \in 1..n |-> x[i].strength_raw])) = total}

InitScore ==
    /\ \E n \in 1..MaxSignals : \E total \in 0..(n * MaxStrength) :
           themes \in ScoredListsOf(n, total) \X ScoredListsOf(n, total)
    /\ raw_scores = [done |-> FALSE, out |-> <<>>]
    /\ IdleExceptScore

ScoreThemes ==
    /\ ~raw_scores.done
    /\ raw_scores' = [done |-> TRUE,
                      out |-> <<CatalogRawScore(themes[1]), CatalogRawScore(themes[2])>>]
    /\ UNCHANGED <<themes, exceptScore>>

SpecScore == InitScore /\ [][ScoreThemes]_vars

(***************************************************************************)
(* Specification SpecFactor: signal_count_factor applied to two signal     *)
(* signal_counts in 1..MaxCount.                                                  *)
(***************************************************************************)
InitFactor ==
    /\ signal_counts \in {<<m, n>> : m \in 1..MaxCount, n \in 1..MaxCount}
    /\ factors = [done |-> FALSE, out |-> <<>>]
    /\ IdleExceptFactor

CountFactors ==
    /\ ~factors.done
    /\ factors' = [done |-> TRUE,
                   out |-> <<signal_count_factor(signal_counts[1]), signal_count_factor(signal_counts[2])>>]
    /\ UNCHANGED <<signal_counts, exceptFactor>>

SpecFactor == InitFactor /\ [][CountFactors]_vars

(***************************************************************************)
(* Specification SpecMiner: _discover_unknown_themes applied to every      *)
(* corpus of at most MaxMinerCorpus snippets of MinerPool.                 *)
(***************************************************************************)
MinerPool == {
    \* ten bigrams of words outside the catalog and the stop-words: 'qaa qab qac qad qae qaf qag qah qai qaj qak'
    <<"q", "a", "a", " ", "q", "a", "b", " ", "q", "a", "c", " ", "q", "a", "d", " ", "q", "a", "e", " ", "q", "a", "f", " ", "q", "a", "g", " ", "q", "a", "h", " ", "q", "a", "i", " ", "q", "a", "j", " ", "q", "a", "k">>,
    \* the last two of them once more: 'qai qaj qak'
    <<"q", "a", "i", " ", "q", "a", "j", " ", "q", "a", "k">>,
    \* ten bigrams, nine of them with the catalog word 'agent', one across a stop-word: 'agent qaa agent qab agent qac agent qad agent qae the qaf'
    <<"a", "g", "e", "n", "t", " ", "q", "a", "a", " ", "a", "g", "e", "n", "t", " ", "q", "a", "b", " ", "a", "g", "e", "n", "t", " ", "q", "a", "c", " ", "a", "g", "e", "n", "t", " ", "q", "a", "d", " ", "a", "g", "e", "n", "t", " ", "q", "a", "e", " ", "t", "h", "e", " ", "q", "a", "f">>,
    \* a stop-word and a short word between words of the first snippet: 'qaa the qab is qac'
    <<"q", "a", "a", " ", "t", "h", "e", " ", "q", "a", "b", " ", "i", "s", " ", "q", "a", "c">>
    }

InitMiner ==
    /\ miner_corpus \in SeqsOf(MinerPool, 0, MaxMinerCorpus)
    /\ unknown_themes = [done |-> FALSE, out |-> <<>>]
    /\ IdleExceptMiner

DiscoverUnknownThemes ==
    /\ ~unknown_themes.done
    /\ unknown_themes' = [done |-> TRUE, out |-> _discover_unknown_themes(miner_corpus)]
    /\ UNCHANGED <<miner_corpus, exceptMiner>>

SpecMiner == InitMiner /\ [][DiscoverUnknownThemes]_vars

(***************************************************************************)
(* Specification SpecIdeas: generate_ideas applied to ranked narrative     *)
(* lists of at most MaxRanked narratives.  A list holds some of the names  *)
(* of RankedNamePool, in the pool's order or in the reverse order, with    *)
(* scores falling evenly from 100.0 to 0.0.                                *)
(***************************************************************************)
RankedNamePool == <<
    \* Gaming & Entertainment: no template
    <<"G", "a", "m", "i", "n", "g", " ", "&", " ", "E", "n", "t", "e", "r", "t", "a", "i", "n", "m", "e", "n", "t">>,
    \* MEV & Trading Infrastructure: fuzzy match 'infrastructure' of DePIN & Physical Infrastructure
    <<"M", "E", "V", " ", "&", " ", "T", "r", "a", "d", "i", "n", "g", " ", "I", "n", "f", "r", "a", "s", "t", "r", "u", "c", "t", "u", "r", "e">>,
    \* DePIN & Physical Infrastructure: exact match
    <<"D", "e", "P", "I", "N", " ", "&", " ", "P", "h", "y", "s", "i", "c", "a", "l", " ", "I", "n", "f", "r", "a", "s", "t", "r", "u", "c", "t", "u", "r", "e">>,
    \* Prediction Markets: no template
    <<"P", "r", "e", "d", "i", "c", "t", "i", "o", "n", " ", "M", "a", "r", "k", "e", "t", "s">>,
    \* AI & Autonomous Agents: exact match
    <<"A", "I", " ", "&", " ", "A", "u", "t", "o", "n", "o", "m", "o", "u", "s", " ", "A", "g", "e", "n", "t", "s">>,
    \* Consumer Apps & Blinks: no template
    <<"C", "o", "n", "s", "u", "m", "e", "r", " ", "A", "p", "p", "s", " ", "&", " ", "B", "l", "i", "n", "k", "s">>,
    \* Infrastructure & Validators: exact match
    <<"I", "n", "f", "r", "a", "s", "t", "r", "u", "c", "t", "u", "r", "e", " ", "&", " ", "V", "a", "l", "i", "d", "a", "t", "o", "r", "s">>,
    \* Cross-Chain & Bridges: no template
    <<"C", "r", "o", "s", "s", "-", "C", "h", "a", "i", "n", " ", "&", " ", "B", "r", "i", "d", "g", "e", "s">>,
    \* Stablecoin & PayFi Expansion: exact match
    <<"S", "t", "a", "b", "l", "e", "c", "o", "i", "n", " ", "&", " ", "P", "a", "y", "F", "i", " ", "E", "x", "p", "a", "n", "s", "i", "o", "n">>,
    \* Token Extensions (Token-2022): no template
    <<"T", "o", "k", "e", "n", " ", "E", "x", "t", "e", "n", "s", "i", "o", "n", "s", " ", "(", "T", "o", "k", "e", "n", "-", "2", "0", "2", "2", ")">>,
    \* Liquid Staking & Restaking: exact match
    <<"L", "i", "q", "u", "i", "d", " ", "S", "t", "a", "k", "i", "n", "g", " ", "&", " ", "R", "e", "s", "t", "a", "k", "i", "n", "g">>,
    \* Realm Quest (Emerging): a discovered theme, fuzzy match 'real' of Real World Assets (RWA)
    <<"R", "e", "a", "l", "m", " ", "Q", "u", "e", "s", "t", " ", "(", "E", "m", "e", "r", "g", "i", "n", "g", ")">>
    >>

Reverse(seq) == Tuple([i \in 1..Len(seq) |-> seq[Len(seq) + 1 - i]])

\* the names of the pool whose index is in chosen, in the pool's order
NamesAt(chosen) ==
    SelectSeq(RankedNamePool, LAMBDA n : \E i \in chosen : RankedNamePool[i] = n)

\* the ranked_narratives list with these names: scores as min-max normalisation gives them
\* for evenly spaced raw scores, signal counts 1, 2, ...
RankedOf(names) ==
    Tuple([i \in 1..Len(names) |->
              [name |-> names[i],
               score |-> IF Len(names) = 1 THEN 500
                         ELSE ((Len(names) - i) * 1000) \div (Len(names) - 1),
               signal_count |-> i]])

RankedInputs ==
    UNION {{RankedOf(NamesAt(chosen)), RankedOf(Reverse(NamesAt(chosen)))} :
              chosen \in {c \in SUBSET DOMAIN RankedNamePool : Cardinality(c) <= MaxRanked}}

InitIdeas ==
    /\ ranked_narratives \in RankedInputs
    /\ ideas = [done |-> FALSE, out |-> <<>>]
    /\ IdleExceptIdea

GenerateIdeas ==
    /\ ~ideas.done
    /\ ideas' = [done |-> TRUE, out |-> generate_ideas(ranked_narratives)]
    /\ UNCHANGED <<ranked_narratives, exceptIdea>>

SpecIdeas == InitIdeas /\ [][GenerateIdeas]_vars

(***************************************************************************)
(* Specification SpecExtract: the three extractors applied to payloads of  *)
(* the expected top-level shape, one record in one section of one source,  *)
(* with every combination of the record's optional fields left out.        *)
(***************************************************************************)
\* the dict d without the keys in dropped
Without(d, dropped) == [k \in (DOMAIN d) \ dropped |-> d[k]]

\* d with every subset of the optional keys left out
Partial(d, optional) == {Without(d, dropped) : dropped \in SUBSET optional}

TrendingRepos ==
    Partial([name |-> <<"a", "g", "e", "n", "t", "-", "k", "i", "t">>, stars |-> 7, topics |-> <<<<"a", "i">>, <<"a", "g", "e", "n", "t", "s">>>>],
            {"name", "stars", "topics"})

NewRepos ==
    Partial([name |-> <<"z", "k", "-", "p", "a", "y">>, stars |-> 0, topics |-> <<<<"p", "a", "y", "m", "e", "n", "t", "s">>>>,
             description |-> <<"p", "r", "i", "v", "a", "t", "e", " ", "p", "a", "y", "m", "e", "n", "t", "s">>],
            {"stars", "topics", "description"})

Probes ==
    Partial([query |-> <<"s", "o", "l", "a", "n", "a", " ", "a", "i", " ", "a", "g", "e", "n", "t">>, count |-> 2, total_stars |-> 9],
            {"query", "count", "total_stars"})

GithubPayloads ==
    {[trending_repos |-> <<r>>] : r \in TrendingRepos}
        \cup {[new_repos |-> <<r>>] : r \in NewRepos}
        \cup {[narrative_probes |-> <<p>>] : p \in Probes}

RedditPosts ==
    Partial([title |-> <<"r", "e", "s", "t", "a", "k", "i", "n", "g", " ", "i", "s", " ", "l", "i", "v", "e">>, score |-> 4, comments |-> 3,
             flair |-> <<"d", "e", "f", "i">>],
            {"title", "score", "flair"})

Questions == Partial([title |-> <<"h", "o", "w", " ", "t", "o", " ", "m", "i", "n", "t">>, tags |-> <<<<"a", "n", "c", "h", "o", "r">>, <<"r", "u", "s", "t">>>>], {"tags"})

ForumItems == Partial([title |-> <<"v", "a", "l", "i", "d", "a", "t", "o", "r", " ", "v", "o", "t", "e">>, link |-> <<"h", "t", "t", "p", "s", ":", "/", "/", "f", "/", "1">>], {"title", "link"})

SocialPayloads ==
    {[reddit |-> [solana |-> <<p>>]] : p \in RedditPosts}
        \cup {[reddit |-> [solanadev |-> <<p>>]] : p \in RedditPosts}
        \cup {[stackexchange |-> <<q>>] : q \in Questions}
        \cup {[forum |-> <<f>>] : f \in ForumItems}

Protocols ==
    Partial([name |-> <<"K", "a", "m", "i", "n", "o">>, category |-> <<"L", "e", "n", "d", "i", "n", "g">>, tvl_usd |-> 2000000,
             change_7d_pct |-> 6],
            {"name", "category", "tvl_usd", "change_7d_pct"})

Fees == Partial([name |-> <<"J", "u", "p", "i", "t", "e", "r">>, fees_24h |-> 1200, change_7d_pct |-> 12],
                {"fees_24h", "change_7d_pct"})

StableAssets ==
    Partial([symbol |-> <<"P", "Y", "U", "S", "D">>, mcap_usd |-> 300000], {"symbol", "mcap_usd"})
        \cup Partial([symbol |-> <<"U", "S", "D", "C">>, mcap_usd |-> 1700000], {"mcap_usd"})

DefiPayloads ==
    {[protocols |-> <<p>>] : p \in Protocols}
        \cup {[fees |-> <<f>>] : f \in Fees}
        \cup {[stablecoins |-> [total_mcap_usd |-> 2000000, assets |-> <<s>>]] :
                 s \in StableAssets}
        \cup {[stablecoins |-> [assets |-> <<s>>]] : s \in StableAssets}
        \cup {[tvl |-> t] : t \in Partial([current_usd |-> 8250000, change_14d_pct |-> 3],
                                          {"current_usd", "change_14d_pct"})}
        \cup {[dex |-> d] : d \in Partial([total_24h_usd |-> 1500000, change_7d_pct |-> 0],
                                          {"total_24h_usd", "change_7d_pct"})}

InitExtract ==
    /\ payloads \in {[github |-> g, defi |-> <<>>, social |-> <<>>] : g \in GithubPayloads}
                        \cup {[github |-> <<>>, defi |-> d, social |-> <<>>] : d \in DefiPayloads}
                        \cup {[github |-> <<>>, defi |-> <<>>, social |-> s] :
                                 s \in SocialPayloads}
                        \cup {NoPayloads}
    /\ extracted = NotExtracted
    /\ IdleExceptExtract

ExtractSignals ==
    /\ ~extracted.done
    /\ extracted' = [done |-> TRUE,
                     github |-> extract_github_signals(payloads.github),
                     defi |-> extract_defi_signals(payloads.defi),
                     social |-> extract_social_signals(payloads.social)]
    /\ UNCHANGED <<payloads, exceptExtract>>

SpecExtract == InitExtract /\ [][ExtractSignals]_vars

(***************************************************************************)
(* Specification SpecCollect: one call of run_pipeline that passes the     *)
(* cache check, with each of the three collectors either raising an        *)
(* exception or returning a dict as the collector builds it, every record  *)
(* with all its fields.  gather(return_exceptions=True) hands the          *)
(* exception of a collector back as its result; run_pipeline replaces it   *)
(* by {}.  The snapshot directory is empty or holds one earlier snapshot.  *)
(***************************************************************************)
Sources == {"github", "defi", "social"}

\* what github.collect() can return
GithubData == {
    [trending_repos |-> <<>>, new_repos |-> <<>>, narrative_probes |-> <<>>,
     text_corpus |-> <<>>],
    [trending_repos |-> <<[name |-> <<"a", "g", "e", "n", "t", "-", "k", "i", "t">>, description |-> <<"a", "i", " ", "a", "g", "e", "n", "t", "s", " ", "t", "o", "o", "l", "k", "i", "t">>,
                           stars |-> 7, topics |-> <<<<"a", "i">>, <<"a", "g", "e", "n", "t", "s">>>>]>>,
     new_repos |-> <<>>, narrative_probes |-> <<>>,
     text_corpus |-> <<<<"a", "i", " ", "a", "g", "e", "n", "t", "s", " ", "t", "o", "o", "l", "k", "i", "t", " ", "a", "i", " ", "a", "g", "e", "n", "t", "s">>>>],
    [trending_repos |-> <<>>,
     new_repos |-> <<[name |-> <<"z", "k", "-", "p", "a", "y">>, description |-> <<"p", "r", "i", "v", "a", "t", "e", " ", "p", "a", "y", "m", "e", "n", "t", "s">>,
                      stars |-> 2, topics |-> <<<<"p", "a", "y", "m", "e", "n", "t", "s">>>>]>>,
     narrative_probes |-> <<[query |-> <<"s", "o", "l", "a", "n", "a", " ", "d", "e", "p", "i", "n">>, count |-> 2, total_stars |-> 9]>>,
     text_corpus |-> <<<<"p", "r", "i", "v", "a", "t", "e", " ", "p", "a", "y", "m", "e", "n", "t", "s", " ", "p", "a", "y", "m", "e", "n", "t", "s">>>>]
    }

\* what defi.collect() can return
DefiData == {
    [tvl |-> <<>>, protocols |-> <<>>, fees |-> <<>>, stablecoins |-> <<>>, dex |-> <<>>],
    [tvl |-> [current_usd |-> 8250000, change_14d_pct |-> 3],
     protocols |-> <<[name |-> <<"K", "a", "m", "i", "n", "o">>, category |-> <<"L", "e", "n", "d", "i", "n", "g">>, tvl_usd |-> 2000000,
                      change_7d_pct |-> 6]>>,
     fees |-> <<>>, stablecoins |-> <<>>, dex |-> <<>>],
    [tvl |-> <<>>, protocols |-> <<>>,
     fees |-> <<[name |-> <<"J", "u", "p", "i", "t", "e", "r">>, fees_24h |-> 1200, change_7d_pct |-> 12]>>,
     stablecoins |-> [total_mcap_usd |-> 2000000,
                      assets |-> <<[symbol |-> <<"P", "Y", "U", "S", "D">>, mcap_usd |-> 300000]>>],
     dex |-> [total_24h_usd |-> 1500000, change_7d_pct |-> 0]]
    }

\* what social.collect() can return
SocialData == {
    [reddit |-> [solana |-> <<>>, solanadev |-> <<>>], stackexchange |-> <<>>,
     forum |-> <<>>, text_corpus |-> <<>>],
    [reddit |-> [solana |-> <<[title |-> <<"r", "e", "s", "t", "a", "k", "i", "n", "g", " ", "i", "s", " ", "l", "i", "v", "e">>, score |-> 4,
                               comments |-> 3, flair |-> <<"d", "e", "f", "i">>]>>,
                 solanadev |-> <<>>],
     stackexchange |-> <<>>, forum |-> <<>>,
     text_corpus |-> <<<<"r", "e", "s", "t", "a", "k", "i", "n", "g", " ", "i", "s", " ", "l", "i", "v", "e">>>>],
    [reddit |-> [solana |-> <<>>, solanadev |-> <<>>],
     stackexchange |-> <<[title |-> <<"h", "o", "w", " ", "t", "o", " ", "m", "i", "n", "t">>, tags |-> <<<<"a", "n", "c", "h", "o", "r">>, <<"r", "u", "s", "t">>>>]>>,
     forum |-> <<[title |-> <<"v", "a", "l", "i", "d", "a", "t", "o", "r", " ", "v", "o", "t", "e">>, link |-> <<"h", "t", "t", "p", "s", ":", "/", "/", "f", "/", "1">>]>>,
     text_corpus |-> <<<<"h", "o", "w", " ", "t", "o", " ", "m", "i", "n", "t">>, <<"v", "a", "l", "i", "d", "a", "t", "o", "r", " ", "v", "o", "t", "e">>>>]
    }

\* how a collector can end
CollectorOutcomes(src) ==
    {Failure} \cup {Success(data) : data \in CASE src = "github" -> GithubData
                                               [] src = "defi" -> DefiData
                                               [] OTHER -> SocialData}

\* if isinstance(github_data, Exception): github_data = {}
DataOf(outcome) == IF outcome.kind = "exception" THEN <<>> ELSE outcome.data

\* the second of the clock in which the call saves its snapshot
RunSecond == 1

\* a snapshot file an earlier execution left, at second 0
EarlierSnapshot ==
    [kind |-> "snapshot", writer |-> 0,
     narratives |-> <<[name |-> <<"A", "I", " ", "&", " ", "A", "u", "t", "o", "n", "o", "m", "o", "u", "s", " ", "A", "g", "e", "n", "t", "s">>, score |-> 400,
                       signal_count |-> 1, sources |-> {"github"},
                       discovered |-> FALSE]>>]

SnapshotDirs == {<<>>, [t \in {0} |-> EarlierSnapshot]}

\* an exception leaves run_pipeline
Aborted == [kind |-> "raised", all_signals |-> <<>>, narratives |-> <<>>, ideas |-> <<>>,
            deltas |-> <<>>, has_previous |-> FALSE]

\* lines 81-131: the deltas are attached, the result is built and returned
Finished(signals, narrs, ideas_out, saved, loaded, computed) ==
    [saved |-> saved,
     result |-> IF computed.raised THEN Aborted
                ELSE [kind |-> "executed", all_signals |-> signals,
                      narratives |-> WithDeltas(narrs, computed.out),
                      ideas |-> ideas_out, deltas |-> computed.out,
                      has_previous |-> (loaded.kind # "none")]]

\* line 79: deltas = compute_deltas(narratives, previous)
Compared(signals, narrs, ideas_out, saved, loaded) ==
    Finished(signals, narrs, ideas_out, saved, loaded, compute_deltas(narrs, loaded))

\* line 78: previous = load_previous_snapshot()
Saved(signals, narrs, ideas_out, saved) ==
    Compared(signals, narrs, ideas_out, saved, load_previous_snapshot(saved))

\* lines 74-77: ideas = generate_ideas(...); save_snapshot(narratives, ideas)
Discovered(dir, signals, narrs) ==
    Saved(signals, narrs, generate_ideas(narrs), save_snapshot(dir, narrs, RunSecond, 1))

\* line 71: narratives = discover_narratives(all_signals, text_corpus)
Scored(dir, signals, corpus) == Discovered(dir, signals, discover_narratives(signals, corpus))

\* lines 62-68: an exception of an extractor leaves run_pipeline before the snapshot
Extracted(dir, g, d, s, corpus) ==
    IF g.raised \/ d.raised \/ s.raised
    THEN [saved |-> dir, result |-> Aborted]
    ELSE Scored(dir, g.signals \o d.signals \o s.signals, corpus)

\* run_pipeline after the collectors, lines 50-131
RunCore(dir, github_data, defi_data, social_data) ==
    Extracted(dir, extract_github_signals(github_data), extract_defi_signals(defi_data),
              extract_social_signals(social_data),
              Get(github_data, "text_corpus", <<>>) \o Get(social_data, "text_corpus", <<>>))

InitCollect ==
    /\ gathered = NotGathered
    /\ snapshot_dir \in SnapshotDirs
    /\ pipeline = NotRun
    /\ IdleExceptCollect

\* run_pipeline up to the await: the three collectors are started
StartCollectors ==
    /\ gathered.pc = "idle"
    /\ gathered' = [gathered EXCEPT !.pc = "gathering"]
    /\ UNCHANGED <<snapshot_dir, pipeline, exceptCollect>>

\* one collector ends, with an exception or with its dict
CollectorEnds(src, outcome) ==
    /\ gathered.pc = "gathering"
    /\ gathered[src] = Pending
    /\ gathered' = [gathered EXCEPT ![src] = outcome]
    /\ UNCHANGED <<snapshot_dir, pipeline, exceptCollect>>

\* gather returns when the three have ended; run_pipeline runs to its end
FinishPipeline ==
    /\ gathered.pc = "gathering"
    /\ \A src \in Sources : gathered[src] # Pending
    /\ \E out \in {RunCore(snapshot_dir, DataOf(gathered.github), DataOf(gathered.defi),
                           DataOf(gathered.social))} :
          /\ pipeline' = out.result
          /\ snapshot_dir' = out.saved
    /\ gathered' = [gathered EXCEPT !.pc = "returned"]
    /\ UNCHANGED exceptCollect

NextCollect ==
    \/ StartCollectors
    \/ \E src \in Sources : \E outcome \in CollectorOutcomes(src) : CollectorEnds(src, outcome)
    \/ FinishPipeline

SpecCollect == InitCollect /\ [][NextCollect]_vars
(***************************************************************************)
(* Specification SpecRematch: phase 1 of discover_narratives called twice  *)
(* on the same list object.  The list all_signals and the module-level     *)
(* dict KNOWN_THEMES are held as state, so that a call that wrote to       *)
(* either would show in the next call.  theme_signals is a local of the    *)
(* call, built anew from {name: [] for name in KNOWN_THEMES}.              *)
(***************************************************************************)
MatcherCalls == 2

\* theme_signals as a call builds it from the catalog cat: for every theme the
\* signals whose text holds one of its keywords, in the order of all_signals
Matched(cat, signals) ==
    Tuple([t \in DOMAIN cat |->
              SelectSeq(signals, LAMBDA s : Matches(SignalText(s), cat[t].keywords))])

\* a faulty matcher: signal["text"] is lowercased in place
MutMatchLowersSignals(cat, signals) ==
    [theme_signals |-> Matched(cat, signals),
     all_signals |-> Tuple([i \in 1..Len(signals) |->
                               [signals[i] EXCEPT !.text = Lower(signals[i].text)]]),
     catalog |-> cat]

\* lines 250-256: what a call returns in theme_signals, and the list and the
\* catalog as it leaves them; it assigns to neither
MatchCall(cat, signals) ==
    [theme_signals |-> Matched(cat, signals), all_signals |-> signals, catalog |-> cat]

InitRematch ==
    /\ matcher_signals \in SeqsOf(SignalPool, 0, MaxMatched)
    /\ catalog = KNOWN_THEMES
    /\ assignments = <<>>
    /\ IdleExceptRematch

MatchThemes ==
    /\ Len(assignments) < MatcherCalls
    /\ \E call \in {MatchCall(catalog, matcher_signals)} :
          /\ assignments' = Append(assignments, call.theme_signals)
          /\ matcher_signals' = call.all_signals
          /\ catalog' = call.catalog
    /\ UNCHANGED exceptRematch

SpecRematch == InitRematch /\ [][MatchThemes]_vars
(***************************************************************************)
(* Specification SpecRaw: the scoring loop applied to one theme of up to   *)
(* 4 * MaxPerKind signals, so that signal_count_factor is met below and at *)
(* its cap.  The raw score depends on the strengths and sources only, so   *)
(* a theme is given by how many signals of each kind it holds.             *)
(***************************************************************************)
\* the kinds of signal: what the scoring loop reads of it
SignalKinds == <<
    [source |-> "github", strength_raw |-> 1],
    [source |-> "github"],
    [source |-> "defi", strength_raw |-> 2],
    [source |-> "social", strength_raw |-> 0]
    >>

RECURSIVE Repeated(_, _)
Repeated(s, n) == IF n = 0 THEN <<>> ELSE <<s>> \o Repeated(s, n - 1)

\* the theme with m[k] signals of kind k
ThemeOf(m) == ConcatAll(Tuple([k \in DOMAIN SignalKinds |-> Repeated(SignalKinds[k], m[k])]))

\* a common denominator of the raw scores of all these themes
ThemeDen == 30 * LcmUpTo(Len(SignalKinds) * MaxPerKind)

InitRaw ==
    /\ scored_signals \in {ThemeOf(m) : m \in [DOMAIN SignalKinds -> 0..MaxPerKind]} \ {<<>>}
    /\ raw_score = [done |-> FALSE, out |-> 0]
    /\ IdleExceptRaw

ScoreTheme ==
    /\ ~raw_score.done
    /\ raw_score' = [done |-> TRUE, out |-> RawScoreOver(ThemeDen, scored_signals)]
    /\ UNCHANGED <<scored_signals, exceptRaw>>

SpecRaw == InitRaw /\ [][ScoreTheme]_vars
(***************************************************************************)
(* Specification SpecLoop: calls of run_pipeline as tasks of one asyncio   *)
(* event loop.  A task keeps the loop from the moment it is resumed until  *)
(* its next await; run_pipeline awaits once, the gather of the collectors  *)
(* (main.py 43-48).  The statements after the gather are taken one by one: *)
(* Resume (lines 50-74), Save (77), Load (78), Finish (79-131).  The       *)
(* files of SNAPSHOT_DIR are written by save_snapshot only.                *)
(***************************************************************************)
Calls == {"a", "b"}

MaxExecutions == 2   \* collections started in one behaviour
MaxLoopTicks == 1    \* advances of the clock in one behaviour

\* what lines 50-74 compute from the results of the collectors
LoopInputs == {[narratives |-> r, ideas |-> generate_ideas(r)] : r \in RankedLists}

\* a faulty event loop: save_snapshot suspends the task as an await would
MutSaveYields(position) == position \in {"gather", "saved", "idle"}

\* the positions of run_pipeline after which the task is suspended or gone:
\* at the await of the gather, and after the return
ReleasesLoop(position) == position \in {"gather", "idle"}

\* the call c can take a step: it is executing, or no task is and it is resumed
CanRun(c) == running \in {c, "none"}

\* who executes after c has reached `position`
After(c, position) == IF ReleasesLoop(position) THEN "none" ELSE c

\* snapshots.py 27-35: the dict save_snapshot writes
SnapshotDict(narrs, made, writer) ==
    [kind |-> "snapshot", writer |-> writer,
     narratives |-> Tuple([i \in 1..Len(narrs) |-> Summary(narrs[i])]),
     idea_count |-> Len(made)]

\* a faulty write: the directory holds the written file only
MutWriteAlone(fs, ts, content) == [t \in {ts} |-> content]

\* snapshots.py 36-37: path.write_text creates the file of second ts or replaces it
write_text(fs, ts, content) ==
    [t \in DOMAIN fs \cup {ts} |-> IF t = ts THEN content ELSE fs[t]]

NotCalled ==
    [pc |-> "idle", force |-> FALSE, now |-> None, narratives |-> <<>>, ideas |-> <<>>,
     wrote |-> <<>>, previous |-> NoPrevious, outcome |-> "none"]

\* what run_pipeline returns (lines 88-131), as far as the cache and the deltas go
ResultOf(started_at, narrs, loaded) ==
    [generated_at |-> started_at,
     narratives |-> WithDeltas(narrs, compute_deltas(narrs, loaded).out),
     deltas |-> compute_deltas(narrs, loaded).out,
     has_previous |-> (loaded.kind # "none")]

\* the process after an earlier execution, the first one, in second 0
EarlierInput ==
    CHOOSE e \in LoopInputs : \A o \in LoopInputs : Len(e.narratives) <= Len(o.narratives)

Warm ==
    [disk |-> write_text(<<>>, 0, SnapshotDict(EarlierInput.narratives, EarlierInput.ideas, 1)),
     globals |-> [_cache |-> <<ResultOf(0, EarlierInput.narratives, NoPrevious)>>,
                  _cache_time |-> 0],
     saved |-> <<[call |-> "earlier", second |-> 0,
                  narratives |-> EarlierInput.narratives, ideas |-> EarlierInput.ideas]>>]

\* the process has just started, or one execution has filled the cache
InitLoop ==
    /\ calls = [c \in Calls |-> NotCalled]
    /\ running = "none"
    /\ wall = [second |-> 0, ticks |-> 0]
    /\ \E warm \in BOOLEAN :
           /\ disk = IF warm THEN Warm.disk ELSE <<>>
           /\ globals = IF warm THEN Warm.globals ELSE [_cache |-> <<>>, _cache_time |-> None]
           /\ journal = [started |-> 0, saved |-> IF warm THEN Warm.saved ELSE <<>>]
    /\ IdleExceptLoop

\* main.py 36-37: the cached result is fresh
Fresh(force) ==
    /\ ~force
    /\ globals._cache # <<>>
    /\ globals._cache_time # None
    /\ wall.second - globals._cache_time < CACHE_TTL_SECONDS

\* run_pipeline(force) up to its await (33-48): the cached result is returned, or
\* the collectors are started and the task is suspended
Enter(c, force) ==
    /\ calls[c].pc = "idle"
    /\ running = "none"
    /\ IF Fresh(force)
       THEN /\ calls' = [calls EXCEPT ![c] = [NotCalled EXCEPT !.outcome = "cached"]]
            /\ UNCHANGED journal
       ELSE /\ journal.started < MaxExecutions
            /\ calls' = [calls EXCEPT ![c] =
                            [NotCalled EXCEPT !.pc = "gather", !.force = force,
                                              !.now = wall.second]]
            /\ journal' = [journal EXCEPT !.started = @ + 1]
    /\ running' = "none"
    /\ UNCHANGED <<wall, disk, globals>>
    /\ UNCHANGED exceptLoop

\* the gather is done and the task is resumed: lines 50-74
Resume(c) ==
    /\ calls[c].pc = "gather"
    /\ running = "none"
    /\ \E in \in LoopInputs :
           calls' = [calls EXCEPT ![c].pc = "scored", ![c].narratives = in.narratives,
                                  ![c].ideas = in.ideas]
    /\ running' = After(c, "scored")
    /\ UNCHANGED <<wall, disk, globals, journal>>
    /\ UNCHANGED exceptLoop

\* line 77: save_snapshot(narratives, ideas)
Save(c) ==
    /\ calls[c].pc = "scored"
    /\ CanRun(c)
    /\ disk' = write_text(disk, wall.second,
                   SnapshotDict(calls[c].narratives, calls[c].ideas,
                                Len(journal.saved) + 1))
    /\ calls' = [calls EXCEPT ![c].pc = "saved", ![c].wrote = disk']
    /\ journal' = [journal EXCEPT !.saved =
                      Append(@, [call |-> c, second |-> wall.second,
                                 narratives |-> calls[c].narratives,
                                 ideas |-> calls[c].ideas])]
    /\ running' = After(c, "saved")
    /\ UNCHANGED <<wall, globals>>
    /\ UNCHANGED exceptLoop

\* line 78: previous = load_previous_snapshot()
Load(c) ==
    /\ calls[c].pc = "saved"
    /\ CanRun(c)
    /\ calls' = [calls EXCEPT ![c].pc = "loaded",
                              ![c].previous = load_previous_snapshot(disk)]
    /\ running' = After(c, "loaded")
    /\ UNCHANGED <<wall, disk, globals, journal>>
    /\ UNCHANGED exceptLoop

\* lines 79-131: the deltas are computed and attached, the cache is filled, the
\* result is returned; an exception of compute_deltas leaves run_pipeline
Finish(c) ==
    /\ calls[c].pc = "loaded"
    /\ CanRun(c)
    /\ IF compute_deltas(calls[c].narratives, calls[c].previous).raised
       THEN /\ calls' = [calls EXCEPT ![c] = [NotCalled EXCEPT !.outcome = "raised"]]
            /\ UNCHANGED globals
       ELSE /\ calls' = [calls EXCEPT ![c] = [NotCalled EXCEPT !.outcome = "executed"]]
            /\ globals' = [_cache |-> <<ResultOf(calls[c].now, calls[c].narratives,
                                                 calls[c].previous)>>,
                           _cache_time |-> calls[c].now]
    /\ running' = After(c, "idle")
    /\ UNCHANGED <<wall, disk, journal>>
    /\ UNCHANGED exceptLoop

\* datetime.now(timezone.utc) advances, by a second or by the time to live of the cache
Pass(d) ==
    /\ wall.ticks < MaxLoopTicks
    /\ wall' = [second |-> wall.second + d, ticks |-> wall.ticks + 1]
    /\ UNCHANGED <<calls, running, disk, globals, journal>>
    /\ UNCHANGED exceptLoop

NextLoop ==
    \/ \E c \in Calls, force \in BOOLEAN : Enter(c, force)
    \/ \E c \in Calls : Resume(c)
    \/ \E c \in Calls : Save(c)
    \/ \E c \in Calls : Load(c)
    \/ \E c \in Calls : Finish(c)
    \/ \E d \in {1, CACHE_TTL_SECONDS} : Pass(d)

SpecLoop == InitLoop /\ [][NextLoop]_vars
(***************************************************************************)
(* collectors/github.py, _gh_get.  Specification SpecGet: one call of      *)
(* _gh_get with every sequence of answers of client.get.  An answer is an  *)
(* HTTP response, whose body resp.json() parses or raises on, or an        *)
(* exception of client.get (the client has a timeout, so every request     *)
(* ends).  The semaphore is free.                                          *)
(***************************************************************************)
MaxAttempts == 3

Statuses == {200, 403, 429, 404, 500}

Raises == [kind |-> "exception", status |-> 0, parses |-> FALSE]

Answers ==
    {[kind |-> "response", status |-> s, parses |-> TRUE] : s \in Statuses}
    \cup {[kind |-> "response", status |-> 200, parses |-> FALSE], Raises}

\* wait = min(2 ** attempt * 5, 30)
BackOff(attempt) == IF Pow2(attempt) * 5 < 30 THEN Pow2(attempt) * 5 ELSE 30

\* a faulty _gh_get: a server error is retried like a rate limit
MutRetryServerErrors(answer, attempt) ==
    IF answer.kind = "exception" THEN [do |-> "sleep", wait |-> 2]
    ELSE IF answer.status = 200
         THEN IF answer.parses THEN [do |-> "return", wait |-> 0]
              ELSE [do |-> "sleep", wait |-> 2]
    ELSE IF answer.status \in {403, 429, 500}
         THEN [do |-> "sleep", wait |-> BackOff(attempt)]
    ELSE [do |-> "none", wait |-> 0]

\* the body of the for loop (lines 34-48) for one answer: return resp.json(),
\* return None, or sleep and go on; an exception of client.get or of resp.json()
\* reaches the except clause
Handle(answer, attempt) ==
    IF answer.kind = "exception" THEN [do |-> "sleep", wait |-> 2]
    ELSE IF answer.status = 200
         THEN IF answer.parses THEN [do |-> "return", wait |-> 0]
              ELSE [do |-> "sleep", wait |-> 2]
    ELSE IF answer.status \in {403, 429}
         THEN [do |-> "sleep", wait |-> BackOff(attempt)]
    ELSE [do |-> "none", wait |-> 0]

NotRequested == [pc |-> "start", attempt |-> 0, seen |-> <<>>, slept |-> <<>>,
                 result |-> "pending"]

InitGet ==
    /\ gh_call = NotRequested
    /\ IdleExceptGet

\* lines 32-35: the semaphore is entered, the loop starts, client.get is awaited
Request ==
    /\ gh_call.pc = "start"
    /\ gh_call' = [gh_call EXCEPT !.pc = "get"]
    /\ UNCHANGED exceptGet

\* lines 35-48: client.get ends with an answer
Answer(answer) ==
    /\ gh_call.pc = "get"
    /\ LET h == Handle(answer, gh_call.attempt)
       IN  gh_call' =
               [gh_call EXCEPT
                   !.seen = Append(@, answer),
                   !.pc = IF h.do = "sleep" THEN "sleep" ELSE "returned",
                   !.slept = IF h.do = "sleep" THEN Append(@, h.wait) ELSE @,
                   !.result = IF h.do = "return" THEN "body"
                              ELSE IF h.do = "none" THEN "None" ELSE @]
    /\ UNCHANGED exceptGet

\* asyncio.sleep ends: the next attempt, or the end of the loop and line 49
Wake ==
    /\ gh_call.pc = "sleep"
    /\ IF gh_call.attempt + 1 < MaxAttempts
       THEN gh_call' = [gh_call EXCEPT !.pc = "get", !.attempt = @ + 1]
       ELSE gh_call' = [gh_call EXCEPT !.pc = "returned", !.result = "None"]
    /\ UNCHANGED exceptGet

NextGet ==
    \/ Request
    \/ \E answer \in Answers : Answer(answer)
    \/ Wake

SpecGet == InitGet /\ [][NextGet]_vars

\* every awaited request and every sleep ends, and the event loop resumes the task
SpecGetFair == SpecGet /\ WF_vars(NextGet)
(***************************************************************************)
(* collectors/github.py, collect and _sem.  Specification SpecSem: one     *)
(* call of collect.  The three discovery tasks are gathered first, the     *)
(* probe tasks after all three are done; every task is one call of         *)
(* _gh_get, inside `async with _sem`.  asyncio starts the tasks of a       *)
(* gather in the order given, each up to its first await.  The semaphore   *)
(* is asyncio.Semaphore: acquire takes a permit when one is free and       *)
(* nobody waits, and queues otherwise; release hands the permit to the     *)
(* first waiter, or puts it back.                                          *)
(***************************************************************************)
Permits == 5

DiscoveryTasks == <<"trending", "new", "active">>

\* search_narrative_signal, one task per query of NARRATIVE_PROBES
ProbeTasks == <<"probe1", "probe2", "probe3", "probe4", "probe5", "probe6">>

GhTasks == Range(DiscoveryTasks) \cup Range(ProbeTasks)

MaxRetryAnswers == 3  \* answers that make _gh_get go on, in one behaviour

\* one answer for each way the loop body of _gh_get ends: a body, a rate limit,
\* another status, an exception
TaskAnswers ==
    {[kind |-> "response", status |-> s, parses |-> TRUE] : s \in {200, 429, 404}}
    \cup {Raises}

NotStarted == [pc |-> "new", attempt |-> 0, exit |-> "none"]

\* the tasks that are inside `async with _sem`
Inside(tasks) == {t \in DOMAIN tasks : tasks[t].pc \in {"granted", "get", "sleep"}}

\* `async with _sem` entered by the task t (line 32): st = [tasks, sem]
Acquire(st, t) ==
    IF st.sem.value > 0 /\ st.sem.waiters = <<>>
    THEN [tasks |-> [st.tasks EXCEPT ![t].pc = "get"],
          sem |-> [st.sem EXCEPT !.value = @ - 1]]
    ELSE [tasks |-> [st.tasks EXCEPT ![t].pc = "waiting"],
          sem |-> [st.sem EXCEPT !.waiters = Append(@, t)]]

\* asyncio.gather(...): the tasks are started in order
RECURSIVE Gather(_, _, _)
Gather(st, batch, i) ==
    IF i > Len(batch) THEN st ELSE Gather(Acquire(st, batch[i]), batch, i + 1)

\* a faulty exit: the task is done and its permit is not given back
MutReleaseKeepsPermit(st, t, exit) ==
    [tasks |-> [st.tasks EXCEPT ![t].pc = "done", ![t].exit = exit],
     sem |-> st.sem]

\* `async with _sem` left by the task t, which is done: release()
Release(st, t, exit) ==
    LET ended == [st.tasks EXCEPT ![t].pc = "done", ![t].exit = exit]
    IN  IF st.sem.waiters # <<>>
        THEN [tasks |-> [ended EXCEPT ![Head(st.sem.waiters)].pc = "granted"],
              sem |-> [st.sem EXCEPT !.waiters = Tail(@)]]
        ELSE [tasks |-> ended, sem |-> [st.sem EXCEPT !.value = @ + 1]]

\* the answers so far after which a _gh_get went on
RetryAnswers(tasks) ==
    {<<t, k>> \in (DOMAIN tasks) \X (1..MaxAttempts) :
        k <= tasks[t].attempt
             + (IF tasks[t].pc = "sleep" \/ tasks[t].exit = "exhausted" THEN 1 ELSE 0)}

InitSem ==
    /\ gh_tasks = [t \in GhTasks |-> NotStarted]
    /\ _sem = [value |-> Permits, waiters |-> <<>>]
    /\ IdleExceptSem

\* lines 132-136 and 139-140: a gather starts its tasks
Spawn(batch) ==
    /\ \A i \in DOMAIN batch : gh_tasks[batch[i]].pc = "new"
    /\ batch = ProbeTasks => \A i \in DOMAIN DiscoveryTasks :
                                 /\ gh_tasks[DiscoveryTasks[i]].pc = "done"
                                 /\ gh_tasks[DiscoveryTasks[i]].exit # "cancelled"
    /\ LET st == Gather([tasks |-> gh_tasks, sem |-> _sem], batch, 1)
       IN  gh_tasks' = st.tasks /\ _sem' = st.sem
    /\ UNCHANGED exceptSem

\* a waiter that was handed a permit is resumed and sends its first request
Granted(t) ==
    /\ gh_tasks[t].pc = "granted"
    /\ gh_tasks' = [gh_tasks EXCEPT ![t].pc = "get"]
    /\ UNCHANGED _sem
    /\ UNCHANGED exceptSem

\* client.get of the task t ends with an answer (lines 35-48)
Answered(t, answer) ==
    /\ gh_tasks[t].pc = "get"
    /\ LET h == Handle(answer, gh_tasks[t].attempt)
       IN  IF h.do = "sleep"
           THEN /\ Cardinality(RetryAnswers(gh_tasks)) < MaxRetryAnswers
                /\ gh_tasks' = [gh_tasks EXCEPT ![t].pc = "sleep"]
                /\ UNCHANGED _sem
           ELSE LET st == Release([tasks |-> gh_tasks, sem |-> _sem], t, "returned")
                IN  gh_tasks' = st.tasks /\ _sem' = st.sem
    /\ UNCHANGED exceptSem

\* asyncio.sleep of the task t ends: the next attempt, or the end of the loop
Woken(t) ==
    /\ gh_tasks[t].pc = "sleep"
    /\ IF gh_tasks[t].attempt + 1 < MaxAttempts
       THEN /\ gh_tasks' = [gh_tasks EXCEPT ![t].pc = "get", ![t].attempt = @ + 1]
            /\ UNCHANGED _sem
       ELSE LET st == Release([tasks |-> gh_tasks, sem |-> _sem], t, "exhausted")
            IN  gh_tasks' = st.tasks /\ _sem' = st.sem
    /\ UNCHANGED exceptSem

\* collect is cancelled: CancelledError is raised in every task that is not done;
\* a task inside `async with _sem` gives its permit back on the way out, a
\* waiter leaves the queue
Cancelled ==
    /\ \E t \in GhTasks : gh_tasks[t].pc \notin {"new", "done"}
    /\ gh_tasks' = [t \in GhTasks |->
                       IF gh_tasks[t].pc \in {"new", "done"} THEN gh_tasks[t]
                       ELSE [gh_tasks[t] EXCEPT !.pc = "done", !.exit = "cancelled"]]
    /\ _sem' = [value |-> _sem.value + Cardinality(Inside(gh_tasks)), waiters |-> <<>>]
    /\ UNCHANGED exceptSem

NextSem ==
    \/ \E batch \in {DiscoveryTasks, ProbeTasks} : Spawn(batch)
    \/ \E t \in GhTasks : Granted(t)
    \/ \E t \in GhTasks, answer \in TaskAnswers : Answered(t, answer)
    \/ \E t \in GhTasks : Woken(t)
    \/ Cancelled

SpecSem == InitSem /\ [][NextSem]_vars
(***************************************************************************)
(* C1.  For every non-empty list of raw scores _normalize_scores returns a *)
(* list of the same length whose maximum is 100 and whose minimum is 0,    *)
(* unless all inputs are equal (a single element included), and then every *)
(* output is 50.0.                                                         *)
(***************************************************************************)
AllEqual(s) == \A i, j \in DOMAIN s : s[i] = s[j]

C1_NormalizationBounds ==
    (normalized.done /\ Len(values) > 0) =>
        /\ Len(normalized.out) = Len(values)
        /\ IF AllEqual(values)
           THEN \A i \in DOMAIN normalized.out : normalized.out[i] = 500
           ELSE /\ SeqMax(normalized.out) = 1000
                /\ SeqMin(normalized.out) = 0

C1_Witness ==
    /\ normalized.done
    /\ Len(values) = 3
    /\ ~AllEqual(values)
    /\ \E i \in DOMAIN normalized.out : normalized.out[i] \notin {0, 1000}

(***************************************************************************)
(* C2.  In compute_deltas, for a current narrative whose name is in the    *)
(* previous snapshot, the delta is "rising" exactly when current score     *)
(* minus previous score is above 5, "fading" exactly when it is below -5,  *)
(* and "stable" otherwise; a change of exactly 5 or -5 is "stable".        *)
(***************************************************************************)
Known(i) == previous.kind = "snapshot" /\ current[i].name \in PrevNames(previous.narratives)

DecimalChange(i) == current[i].score - PrevScore(previous.narratives, current[i].name)

C2_DeltaThresholds ==
    (deltas.done /\ ~deltas.raised) =>
        \A i \in DOMAIN current : Known(i) =>
            /\ (deltas.out[i].delta = "rising") <=> (DecimalChange(i) > 50)
            /\ (deltas.out[i].delta = "fading") <=> (DecimalChange(i) < -50)
            /\ (deltas.out[i].delta = "stable") <=> (DecimalChange(i) \in -50..50)

(***************************************************************************)
(* C3.  When fewer than two snapshot files exist after the save (the first *)
(* run), every current narrative is "new" and its score_change equals its  *)
(* current normalized score.                                               *)
(***************************************************************************)
Executed == last.kind \in {"executed", "raised"}

C3_FirstRunScoreChange ==
    (last.kind = "executed" /\ last.snapshots < 2) =>
        /\ Len(last.result.deltas) = Len(last.result.narratives)
        /\ \A i \in DOMAIN last.result.narratives :
              /\ last.result.deltas[i].delta = "new"
              /\ last.result.deltas[i].score_change = last.result.narratives[i].score
              /\ last.result.narratives[i].delta = "new"
              /\ last.result.narratives[i].score_change = last.result.narratives[i].score

(***************************************************************************)
(* C4.  As stated: execution k >= 2 of a sequence of executions reads as   *)
(* "previous" the snapshot file that execution k-1 wrote.                  *)
(***************************************************************************)
C4_LoadsPredecessor ==
    (Executed /\ Len(runs) >= 2) => last.writer = Len(runs) - 1

(***************************************************************************)
(* C4, amended.  Execution k >= 2 never reads its own snapshot as          *)
(* "previous".  If it saves in a later second of the clock than execution  *)
(* k-1 did, it reads the file execution k-1 wrote.  If it saves in the     *)
(* same second, it replaces that file and reads a file of an older         *)
(* execution, or none.                                                     *)
(***************************************************************************)
C4_LoadsPredecessorOfLaterSecond ==
    (Executed /\ Len(runs) >= 2) =>
        LET k == Len(runs)
        IN  /\ last.writer # k
            /\ runs[k] > runs[k - 1] => last.writer = k - 1
            /\ runs[k] = runs[k - 1] => last.writer < k - 1

C4_Witness ==
    /\ last.kind = "executed"
    /\ Len(runs) = 3
    /\ runs[1] < runs[2] /\ runs[2] < runs[3]
    /\ last.read = "snapshot"
    /\ last.writer = 2
    /\ last.result.has_previous

(***************************************************************************)
(* C5.  As stated: every save creates a new file, so after N executions    *)
(* the directory holds N files, one per execution.                         *)
(***************************************************************************)
C5_OneFilePerRun ==
    /\ Cardinality(DOMAIN files) = Len(runs)
    /\ \A k \in DOMAIN runs : \E t \in DOMAIN files : files[t].writer = k

(***************************************************************************)
(* C5, amended.  The directory holds one file per second of the clock in   *)
(* which some execution saved, and each file is the one the latest         *)
(* execution of that second wrote: a save creates or replaces the file of  *)
(* its own second and changes no other file.  After N executions that      *)
(* saved in N different seconds the directory holds N files, one per       *)
(* execution.                                                              *)
(***************************************************************************)
LatestOfSecond(t) == CHOOSE k \in DOMAIN runs : runs[k] = t /\ \A j \in DOMAIN runs : runs[j] = t => j <= k

C5_OneFilePerSecond ==
    /\ DOMAIN files = Range(runs)
    /\ \A t \in DOMAIN files : files[t].writer = LatestOfSecond(t)
    /\ Cardinality(Range(runs)) = Len(runs) =>
          /\ Cardinality(DOMAIN files) = Len(runs)
          /\ \A k \in DOMAIN runs : files[runs[k]].writer = k

C5_Witness ==
    /\ Len(runs) = 3
    /\ Cardinality(Range(runs)) = 3
    /\ Cardinality(DOMAIN files) = 3
    /\ \A t \in DOMAIN files : files[t].kind = "snapshot"

(***************************************************************************)
(* C6.  If the file read as "previous" is malformed or unreadable, it is   *)
(* treated as no previous snapshot: load_previous_snapshot returns None,   *)
(* every current narrative is "new", and run_pipeline raises nothing.      *)
(***************************************************************************)
C6_MalformedPreviousFailsSoft ==
    (Executed /\ last.read \in {"unparseable", "wrongshape"}) =>
        /\ last.kind = "executed"
        /\ ~last.result.has_previous
        /\ \A i \in DOMAIN last.result.deltas : last.result.deltas[i].delta = "new"

(***************************************************************************)
(* C7.  With a previous snapshot present, a current narrative whose name   *)
(* is not in it is "new" with score_change equal to its current score, and *)
(* a narrative whose name is in it is never "new".                         *)
(***************************************************************************)
C7_NewIffAbsent ==
    (deltas.done /\ previous.kind = "snapshot") =>
        /\ ~deltas.raised
        /\ Len(deltas.out) = Len(current)
        /\ \A i \in DOMAIN current :
              /\ deltas.out[i].name = current[i].name
              /\ IF Known(i)
                 THEN deltas.out[i].delta # "new"
                 ELSE /\ deltas.out[i].delta = "new"
                      /\ deltas.out[i].score_change = current[i].score

C7_Witness ==
    /\ deltas.done
    /\ previous.kind = "snapshot"
    /\ \E i, j \in DOMAIN current :
          /\ Known(i) /\ ~Known(j)
          /\ deltas.out[j].delta = "new"
          /\ deltas.out[j].score_change > 0

(***************************************************************************)
(* C8.  For a narrative present in the previous snapshot the reported      *)
(* score_change is current score minus previous score, to one decimal:     *)
(* previous 40 and current 47 give "rising" with 7.0, previous 40 and      *)
(* current 43 give "stable" with 3.0.                                      *)
(***************************************************************************)
C8_ScoreChange ==
    (deltas.done /\ ~deltas.raised) =>
        \A i \in DOMAIN current : Known(i) =>
            LET p == PrevScore(previous.narratives, current[i].name)
                d == deltas.out[i]
            IN  /\ d.score_change = current[i].score - p
                /\ (p = 400 /\ current[i].score = 470) =>
                       (d.delta = "rising" /\ d.score_change = 70)
                /\ (p = 400 /\ current[i].score = 430) =>
                       (d.delta = "stable" /\ d.score_change = 30)

C8_Witness ==
    /\ deltas.done
    /\ \E i \in DOMAIN current :
          /\ Known(i)
          /\ PrevScore(previous.narratives, current[i].name) = 400
          /\ current[i].score = 470
          /\ deltas.out[i].delta = "rising"


(***************************************************************************)
(* C9.  The theme matcher puts a signal into a catalog theme if and only   *)
(* if at least one keyword of the theme is a substring of the lowercased   *)
(* "topic text" of the signal; a signal that matches several themes is in  *)
(* each of them, and it is appended to a theme once however many keywords  *)
(* of that theme match.                                                    *)
(***************************************************************************)
Occurs(kw, txt) ==
    \E off \in 0..(Len(txt) - Len(kw)) : SubSeq(txt, off + 1, off + Len(kw)) = kw

MatchingKeywords(t, s) ==
    {k \in DOMAIN KNOWN_THEMES[t].keywords :
        Occurs(KNOWN_THEMES[t].keywords[k], Lower(s.topic \o <<" ">> \o s.text))}

C9_MatcherAssignment ==
    narratives.done =>
        \A t \in ThemeIds :
            theme_signals[t] = SelectSeq(all_signals, LAMBDA s : MatchingKeywords(t, s) # {})

C9_Witness ==
    /\ narratives.done
    /\ \E i \in DOMAIN all_signals : \A t \in ThemeIds : MatchingKeywords(t, all_signals[i]) = {}
    /\ \E i \in DOMAIN all_signals : \E t1, t2 \in ThemeIds :
          /\ t1 # t2
          /\ Cardinality(MatchingKeywords(t1, all_signals[i])) >= 2
          /\ theme_signals[t1] = <<all_signals[i]>>
          /\ theme_signals[t2] = <<all_signals[i]>>

(***************************************************************************)
(* C10.  Every narrative returned by discover_narratives has a non-empty   *)
(* signals list: a catalog theme without matched signals is not in the     *)
(* ranked output.                                                          *)
(***************************************************************************)
C10_NoEmptyNarrative ==
    narratives.done =>
        /\ \A i \in DOMAIN narratives.out : narratives.out[i].signals # <<>>
        /\ \A t \in ThemeIds : theme_signals[t] = <<>> =>
              \A i \in DOMAIN narratives.out : narratives.out[i].name # KNOWN_THEMES[t].name

C10_Witness ==
    /\ narratives.done
    /\ \E t \in ThemeIds : theme_signals[t] = <<>>
    /\ \E i, j \in DOMAIN narratives.out :
          /\ ~narratives.out[i].discovered
          /\ narratives.out[j].discovered

(***************************************************************************)
(* C11.  Source diversity in the raw score.                                *)
(***************************************************************************)
StrengthTotal(signals) ==
    SeqSum(Tuple([i \in 1..Len(signals) |-> signals[i].strength_raw]))

SourcesOf(signals) == {signals[i].source : i \in DOMAIN signals}

\* the first theme has one source, the second has two, and both have the same
\* number of signals and the same average strength
OneAgainstTwoSources ==
    /\ raw_scores.done
    /\ Len(themes[1]) = Len(themes[2])
    /\ StrengthTotal(themes[1]) = StrengthTotal(themes[2])
    /\ Cardinality(SourcesOf(themes[1])) = 1
    /\ Cardinality(SourcesOf(themes[2])) = 2

\* C11 as stated: with signal count and average strength equal, a theme with
\* signals from two distinct sources has a strictly higher raw_score than a theme
\* with signals from one source.
C11_TwoSourcesStrictlyHigher ==
    OneAgainstTwoSources => raw_scores.out[2] > raw_scores.out[1]

\* C11 amended: with signal count and average strength equal, the raw_score of
\* the theme with two sources is 1.4 times the raw_score of the theme with one
\* source; it is strictly higher when the average strength is positive, and both
\* are 0 when the average strength is 0.
C11_TwoSourcesScaleByDiversity ==
    OneAgainstTwoSources =>
        /\ 10 * raw_scores.out[2] = 14 * raw_scores.out[1]
        /\ StrengthTotal(themes[1]) > 0 => raw_scores.out[2] > raw_scores.out[1]
        /\ StrengthTotal(themes[1]) = 0 =>
               raw_scores.out[1] = 0 /\ raw_scores.out[2] = 0

\* C11 witness: two such themes with a positive average strength have been scored
C11_Witness ==
    /\ OneAgainstTwoSources
    /\ StrengthTotal(themes[1]) > 0
    /\ raw_scores.out[2] > raw_scores.out[1]

(***************************************************************************)
(* C12.  signal_count_factor, held in thirds: 3 stands for 1.0, 6 for 2.0. *)
(***************************************************************************)
\* C12: signal_count_factor is non-decreasing in the signal count, never above
\* 2.0, and equal to 2.0 for every count of 6 or more; a count of 3 gives 1.0,
\* counts of 6 and of 12 give 2.0.
C12_SignalCountFactor ==
    factors.done =>
        /\ signal_counts[1] <= signal_counts[2] => factors.out[1] <= factors.out[2]
        /\ \A k \in 1..2 :
              /\ factors.out[k] <= 6
              /\ signal_counts[k] >= 6 => factors.out[k] = 6
              /\ signal_counts[k] < 6 => factors.out[k] < 6
              /\ signal_counts[k] = 3 => factors.out[k] = 3
              /\ signal_counts[k] = 12 => factors.out[k] = 6

\* C12 witness: the factor has been computed for counts 6 and 12 and is 2.0 for both
C12_Witness ==
    /\ factors.done
    /\ signal_counts = <<6, 12>>
    /\ factors.out = <<6, 6>>

(***************************************************************************)
(* C13.  Order of the list returned by discover_narratives.                *)
(***************************************************************************)
\* where a narrative stood before the sort: catalog themes in catalog order, then
\* the discovered themes in the order the miner returned them
PriorPosition(n) ==
    IF n.discovered
    THEN LET found == _discover_unknown_themes(text_corpus)
         IN  Len(KNOWN_THEMES) + (CHOOSE i \in DOMAIN found : found[i].name = n.name)
    ELSE CHOOSE t \in ThemeIds : KNOWN_THEMES[t].name = n.name

\* C13: the returned list is sorted by normalized score, highest first, and
\* narratives with equal scores keep the order they had before the sort.
C13_SortedStable ==
    narratives.done =>
        \A i \in DOMAIN narratives.out : \A j \in DOMAIN narratives.out :
            i < j =>
                /\ narratives.out[i].score >= narratives.out[j].score
                /\ narratives.out[i].score = narratives.out[j].score =>
                       PriorPosition(narratives.out[i]) < PriorPosition(narratives.out[j])

\* C13 witness: a returned list in which a catalog theme and a discovered theme
\* have equal scores, and two catalog themes have equal scores
C13_Witness ==
    /\ narratives.done
    /\ \E i \in DOMAIN narratives.out : \E j \in DOMAIN narratives.out :
           /\ i < j
           /\ narratives.out[i].score = narratives.out[j].score
           /\ ~narratives.out[i].discovered
           /\ narratives.out[j].discovered
    /\ \E i \in DOMAIN narratives.out : \E j \in DOMAIN narratives.out :
           /\ i < j
           /\ narratives.out[i].score = narratives.out[j].score
           /\ ~narratives.out[i].discovered
           /\ ~narratives.out[j].discovered
    /\ \E i \in DOMAIN narratives.out : \E j \in DOMAIN narratives.out :
           narratives.out[i].score > narratives.out[j].score

(***************************************************************************)
(* C14, C15.  The themes returned by _discover_unknown_themes.  Bigrams    *)
(* are counted here from the snippets, without the miner's own counter.    *)
(***************************************************************************)
\* the words of a snippet that are neither stop-words nor shorter than 3 letters
KeptWords(text) ==
    SelectSeq(FindAllWords(text), LAMBDA w : w \notin stop_words /\ Len(w) > 2)

\* kept[s] are the kept words of snippet s
KeptOf(corpus) == Tuple([s \in DOMAIN corpus |-> KeptWords(corpus[s])])

\* the places <<snippet, position>> where w1 is directly followed by w2
Places(kept, w1, w2) ==
    UNION {{<<s, i>> : i \in {i \in 1..(Len(kept[s]) - 1) :
                                 kept[s][i] = w1 /\ kept[s][i + 1] = w2}} :
              s \in DOMAIN kept}

Frequency(kept, b) == Cardinality(Places(kept, b[1], b[2]))

\* the bigrams that occur at least 3 times in the corpus
Qualifying(kept) ==
    {b \in UNION {Range(Bigrams(kept[s])) : s \in DOMAIN kept} : Frequency(kept, b) >= 3}

FreeOfCatalog(b) == b[1] \notin all_known_keywords /\ b[2] \notin all_known_keywords

\* the bigram a discovered theme was made from, read from its synthetic signal
BigramOf(theme) ==
    LET words == FindAllWords(theme.signals[1].topic)
    IN  <<words[1], words[2]>>

Returned(out) == {BigramOf(out[k]) : k \in DOMAIN out}

\* the returned bigrams are among `from`, and none of `from` that was left out
\* is more frequent than a returned one
MostFrequentOf(kept, from, returned) ==
    /\ returned \subseteq from
    /\ \A b \in from \ returned : \A r \in returned :
           Frequency(kept, b) <= Frequency(kept, r)

ThreeOfTen(kept, qualifying, out) ==
    Cardinality(qualifying) = 10 =>
        /\ Len(out) = 3
        /\ MostFrequentOf(kept, qualifying, Returned(out))

\* C14 as stated: the miner returns at most 3 themes; given a corpus with 10
\* bigrams of count >= 3 it returns exactly 3, the 3 with the highest frequency.
C14_ThreeOfTenQualifying ==
    unknown_themes.done =>
        /\ Len(unknown_themes.out) <= 3
        /\ ThreeOfTen(KeptOf(miner_corpus), Qualifying(KeptOf(miner_corpus)),
                      unknown_themes.out)

TopThreeOf(kept, free, out) ==
    /\ Len(out) = (IF Cardinality(free) < 3 THEN Cardinality(free) ELSE 3)
    /\ Cardinality(Returned(out)) = Len(out)
    /\ MostFrequentOf(kept, free, Returned(out))
    /\ \A k \in DOMAIN out :
           /\ out[k].signal_count = Frequency(kept, BigramOf(out[k]))
           /\ k > 1 => out[k - 1].signal_count >= out[k].signal_count

TopThreeFree(kept, qualifying, out) ==
    Cardinality(qualifying) <= MostCommonLimit =>
        TopThreeOf(kept, {b \in qualifying : FreeOfCatalog(b)}, out)

\* C14 amended: the miner returns at most 3 themes; given a corpus with 10 (or any
\* number up to 30) bigrams of count >= 3, it returns one theme for each of the 3
\* most frequent of those bigrams neither of whose words derives from a catalog
\* keyword, or for all of them when they are fewer than 3, most frequent first.
C14_TopThreeFreeOfCatalog ==
    unknown_themes.done =>
        /\ Len(unknown_themes.out) <= 3
        /\ TopThreeFree(KeptOf(miner_corpus), Qualifying(KeptOf(miner_corpus)),
                        unknown_themes.out)

TenFreeNotAllEqual(kept, qualifying, returned) ==
    /\ Cardinality(qualifying) = 10
    /\ \A b \in qualifying : FreeOfCatalog(b)
    /\ \E b \in qualifying \ returned : \E r \in returned :
           Frequency(kept, b) < Frequency(kept, r)

\* C14 witness: a corpus with 10 bigrams of count >= 3, all free of catalog words
\* and not all equally frequent, from which 3 themes have been returned
C14_Witness ==
    /\ unknown_themes.done
    /\ Len(unknown_themes.out) = 3
    /\ TenFreeNotAllEqual(KeptOf(miner_corpus), Qualifying(KeptOf(miner_corpus)),
                          Returned(unknown_themes.out))

DiscoveredFrom(kept, theme, b) ==
    /\ Frequency(kept, b) >= 3
    /\ theme.signal_count = Frequency(kept, b)
    /\ theme.name = Title(b[1]) \o <<" ">> \o Title(b[2]) \o EmergingSuffix
    /\ theme.discovered
    /\ \A w \in {b[1], b[2]} :
           /\ w \notin stop_words
           /\ Len(w) > 2
           /\ w \notin all_known_keywords

AllDiscoveredFrom(kept, out) ==
    \A k \in DOMAIN out : DiscoveredFrom(kept, out[k], BigramOf(out[k]))

\* C15: every discovered theme comes from a bigram that occurs at least 3 times
\* in the corpus, its two words adjacent after filtering inside a single snippet,
\* and neither word is a stop-word, shorter than 3 letters, or a word of a
\* catalog keyword.
C15_DiscoveredBigrams ==
    unknown_themes.done => AllDiscoveredFrom(KeptOf(miner_corpus), unknown_themes.out)

FilteredPlace(corpus, kept, out) ==
    \E k \in DOMAIN out : \E s \in DOMAIN corpus :
        /\ Len(FindAllWords(corpus[s])) > Len(kept[s])
        /\ \E i \in 1..(Len(kept[s]) - 1) : BigramOf(out[k]) = <<kept[s][i], kept[s][i + 1]>>

CatalogBigramLeftOut(kept, qualifying, out) ==
    \E b \in qualifying : ~FreeOfCatalog(b) /\ b \notin Returned(out)

\* C15 witness: a theme has been returned for a bigram whose words stand next to
\* each other only after a stop-word was dropped, while a bigram of count >= 3
\* with a catalog word was left out
C15_Witness ==
    /\ unknown_themes.done
    /\ FilteredPlace(miner_corpus, KeptOf(miner_corpus), unknown_themes.out)
    /\ CatalogBigramLeftOut(KeptOf(miner_corpus), Qualifying(KeptOf(miner_corpus)),
                            unknown_themes.out)

(***************************************************************************)
(* C16, C17.  The list returned by generate_ideas.                         *)
(***************************************************************************)
\* the positions of the narratives that match a template, exactly or fuzzily
Matching(narrs) == {i \in DOMAIN narrs : matched_key(narrs[i].name) # 0}

NoTemplateTwice(out) ==
    \A i \in DOMAIN out : \A j \in DOMAIN out :
        i # j => out[i].template # out[j].template /\ out[i].title # out[j].title

FromCatalog(out) ==
    \A i \in DOMAIN out : \E k \in TemplateIds :
        out[i].template = idea_templates[k].key /\ out[i].title = idea_templates[k].title

\* C16: generate_ideas returns at most 5 ideas, each made from a template of the
\* catalog, and no template is used more than once.
C16_AtMostFiveNoReuse ==
    ideas.done =>
        /\ Len(ideas.out) <= 5
        /\ FromCatalog(ideas.out)
        /\ NoTemplateTwice(ideas.out)

SameTemplateTwice(narrs, matching) ==
    \E i \in matching : \E j \in matching :
        i < j /\ matched_key(narrs[i].name) = matched_key(narrs[j].name)

\* C16 witness: six narratives match a template, two of them the same one, and 5
\* ideas have been returned
C16_Witness ==
    /\ ideas.done
    /\ Len(ideas.out) = 5
    /\ Cardinality(Matching(ranked_narratives)) >= 6
    /\ SameTemplateTwice(ranked_narratives, Matching(ranked_narratives))

\* the idea the fill pass makes of priority_order[p] when no narrative is tied to it
Fallback(p) ==
    [template |-> priority_order[p],
     title |-> idea_templates[CHOOSE k \in TemplateIds :
                                  idea_templates[k].key = priority_order[p]].title,
     tied_narrative |-> priority_order[p],
     narrative_score |-> 0,
     signal_count |-> 0]

AllFromPriorityList(out) ==
    /\ out # <<>>
    /\ \A k \in DOMAIN out :
           /\ out[k].narrative_score = 0
           /\ \E p \in DOMAIN priority_order : out[k].tied_narrative = priority_order[p]

\* C17 as stated: when none of the top 5 names matches a template, ideas are
\* still returned, all taken from the priority list, all with narrative_score 0.
C17_TopFiveUnmatched ==
    (ideas.done /\ \A i \in Matching(ranked_narratives) : i > 5)
        => AllFromPriorityList(ideas.out)

\* C17 amended: when no name of the ranked list matches a template, the ideas
\* returned are the first five templates of the priority list, in that order,
\* each tied to its own key with narrative_score 0 and signal_count 0.
C17_NoneMatchedFallback ==
    (ideas.done /\ Matching(ranked_narratives) = {})
        => ideas.out = Tuple([p \in 1..5 |-> Fallback(p)])

\* C17 witness: five narratives, none matching a template, and the ideas returned
C17_Witness ==
    /\ ideas.done
    /\ Len(ranked_narratives) = 5
    /\ Matching(ranked_narratives) = {}
    /\ Len(ideas.out) = 5
    /\ ideas.out[1].narrative_score = 0

\* C19: the signal normalizers never raise on partial input: for a payload whose
\* records lack optional fields (a repo without 'stars', a Reddit post without
\* 'score', a forum item without 'title') each of extract_github_signals,
\* extract_defi_signals and extract_social_signals returns a signal list.
C19_ExtractorsNeverRaise ==
    extracted.done =>
        /\ ~extracted.github.raised
        /\ ~extracted.defi.raised
        /\ ~extracted.social.raised

\* no signal of all_signals comes from the source src
NoSignalsFrom(src) == \A i \in DOMAIN pipeline.all_signals : pipeline.all_signals[i].source # src

\* the call has written its snapshot, and the snapshot lists the returned narratives
SnapshotOfResult ==
    /\ RunSecond \in DOMAIN snapshot_dir
    /\ snapshot_dir[RunSecond].kind = "snapshot"
    /\ Len(snapshot_dir[RunSecond].narratives) = Len(pipeline.narratives)
    /\ \A i \in DOMAIN pipeline.narratives :
           /\ snapshot_dir[RunSecond].narratives[i].name = pipeline.narratives[i].name
           /\ snapshot_dir[RunSecond].narratives[i].score = pipeline.narratives[i].score

\* no narrative of the snapshot counts the source src among its sources
NoNarrativeFrom(src) ==
    \A i \in DOMAIN snapshot_dir[RunSecond].narratives :
        src \notin snapshot_dir[RunSecond].narratives[i].sources

AllFailed == \A src \in Sources : gathered[src] = Failure

\* C18: whichever of the three collectors fail, run_pipeline completes: a failed
\* source contributes no signals, the narratives are scored and the snapshot is
\* written, and when all three fail the narrative list is empty and the ideas are
\* the first five templates of the priority list with score 0.
C18_FailedCollectorsTolerated ==
    gathered.pc = "returned" =>
        /\ pipeline.kind = "executed"
        /\ SnapshotOfResult
        /\ \A src \in Sources :
               gathered[src] = Failure => NoSignalsFrom(src) /\ NoNarrativeFrom(src)
        /\ AllFailed =>
               /\ pipeline.narratives = <<>>
               /\ pipeline.ideas = Tuple([p \in 1..MaxIdeas |-> Fallback(p)])

\* C18 witness: the three collectors failed and run_pipeline has returned
C18_Witness ==
    /\ gathered.pc = "returned"
    /\ AllFailed
    /\ pipeline.kind = "executed"
    /\ Len(pipeline.ideas) = MaxIdeas
    /\ pipeline.ideas[1].narrative_score = 0

\* the cache check of run_pipeline passes: a result is cached and it is fresh
CacheFresh ==
    /\ _cache # <<>>
    /\ _cache_time # None
    /\ clock - _cache_time < CACHE_TTL_SECONDS

\* the call returns the cached result; no collector starts, no snapshot is written
ReturnsCached ==
    /\ last'.kind = "cached"
    /\ last'.result = _cache[1]
    /\ UNCHANGED <<pc, files, runs, _cache, _cache_time>>

\* the execution of call r has saved its snapshot and replaced the cache by its result
ReplacesCache(r) ==
    /\ clock \in DOMAIN files'
    /\ files'[clock].writer = Len(runs')
    /\ _cache' # <<>>
    /\ _cache'[1].generated_at = now[r]
    /\ _cache_time' = now[r]

\* C20: a non-forced call made while a result is cached and less than
\* CACHE_TTL_SECONDS have passed since the start of the execution that produced
\* it returns that result without running the collectors or writing a snapshot;
\* a forced call always starts the collectors, and the execution always saves
\* its snapshot and replaces the cache by its own result.
C20_CacheGatesPipeline ==
    [][\A r \in Requests :
          /\ (Begin(r, FALSE) /\ CacheFresh) => ReturnsCached
          /\ Begin(r, TRUE) => pc'[r] = "collecting"
          /\ Complete(r) => ReplacesCache(r)]_vars

RECURSIVE StrengthSum(_)
StrengthSum(signals) ==
    IF signals = <<>> THEN 0
    ELSE (IF "strength_raw" \in DOMAIN Head(signals) THEN Head(signals).strength_raw ELSE 0)
             + StrengthSum(Tail(signals))

\* raw = (total / n) * (1 + 0.4 (d - 1)) * min(n / 3, 2.0) for raw = num / den:
\* below the cap  num / den = total (10 + 4 (d - 1)) / 30,
\* at the cap     num / den = total (10 + 4 (d - 1)) 2 / (10 n)
RawScoreFormula(num, den, total, n, d) ==
    IF n < 6
    THEN num * 30 = den * total * (10 + 4 * (d - 1))
    ELSE num * 10 * n = den * total * (10 + 4 * (d - 1)) * 2

\* C22: for a catalog theme with matched signals, raw_score = mean(strength_raw)
\* x (1 + 0.4 x (distinct sources - 1)) x min(signal_count / 3, 2.0), where a
\* signal lacking strength_raw counts as 0.
C22_RawScoreFormula ==
    raw_score.done =>
        RawScoreFormula(raw_score.out, ThemeDen, StrengthSum(scored_signals),
                        Len(scored_signals),
                        Cardinality({scored_signals[i].source : i \in DOMAIN scored_signals}))

\* C22 witness: a theme of seven signals from three sources, one of them without
\* strength_raw, has been scored
C22_Witness ==
    /\ raw_score.done
    /\ Len(scored_signals) = 7
    /\ Cardinality({scored_signals[i].source : i \in DOMAIN scored_signals}) = 3
    /\ \E i \in DOMAIN scored_signals : "strength_raw" \notin DOMAIN scored_signals[i]
    /\ raw_score.out > 0

(***************************************************************************)
(* C23.  Discovered themes in the list discover_narratives returns; a raw  *)
(* score r is held as r * RawDen.                                          *)
(***************************************************************************)
\* the narrative n was made from a bigram of frequency count: raw_score count x 3,
\* one synthetic signal of strength count
WeightedByCount(n, count) ==
    /\ n.raw_score = count * 3 * RawDen
    /\ n.discovered
    /\ Len(n.signals) = 1
    /\ n.signals[1].source = "text_analysis"
    /\ n.signals[1].strength_raw = count

AllDiscoveredWeighted(kept, out) ==
    \A k \in DOMAIN out :
        IF out[k].sources = {"text_analysis"}
        THEN WeightedByCount(out[k], Frequency(kept, BigramOf(out[k])))
        ELSE ~out[k].discovered

\* C23: a discovered theme is normalised with raw_score exactly count x 3, count
\* being the frequency of its bigram, not with the raw score of the catalog
\* formula; it has discovered = true and exactly one synthetic signal, whose
\* strength_raw is count.
C23_DiscoveredRawScore ==
    narratives.done => AllDiscoveredWeighted(KeptOf(text_corpus), narratives.out)

\* C23 witness: a discovered theme of frequency 4 has been ranked next to a
\* catalog theme
C23_Witness ==
    /\ narratives.done
    /\ \E k \in DOMAIN narratives.out :
           /\ narratives.out[k].discovered
           /\ narratives.out[k].signal_count = 4
           /\ narratives.out[k].raw_score = 12 * RawDen
    /\ \E k \in DOMAIN narratives.out : ~narratives.out[k].discovered

(***************************************************************************)
(* C24.  The narrative-matching pass of generate_ideas.                    *)
(***************************************************************************)
\* one of the words of key that are longer than 3 characters is part of name_lower
LongWordIn(key, name_lower) ==
    \E w \in Range(Split(Lower(key))) : Len(w) > 3 /\ Contains(name_lower, w)

\* the template the claim names for a narrative name, 0 when there is none
Chosen(name) ==
    IF \E k \in TemplateIds : idea_templates[k].key = name
    THEN CHOOSE k \in TemplateIds : idea_templates[k].key = name
    ELSE FirstOf({k \in TemplateIds : LongWordIn(idea_templates[k].key, Lower(name))})

\* the idea made of template k for the narrative n
TaggedIdea(k, n) ==
    [template |-> idea_templates[k].key,
     title |-> idea_templates[k].title,
     tied_narrative |-> n.name,
     narrative_score |-> n.score,
     signal_count |-> n.signal_count]

\* the chosen template of each narrative of the list
ChosenOf(narrs) == Tuple([i \in DOMAIN narrs |-> Chosen(narrs[i].name)])

\* the first narrative, in ranked order, for which template k is chosen
FirstChoosing(ch, k) == FirstOf({i \in DOMAIN ch : ch[i] = k})

\* each of the first `made` ideas is the chosen template of a narrative, tagged
\* with that narrative
MadeFromChosen(narrs, ch, out, made) ==
    \A j \in 1..made :
        \E i \in DOMAIN narrs : ch[i] # 0 /\ out[j] = TaggedIdea(ch[i], narrs[i])

\* each narrative that is the first to choose its template has its idea in the
\* list, unless five ideas were made of narratives ranked before it
ChosenAreMade(narrs, ch, out) ==
    \A i \in DOMAIN narrs :
        (ch[i] # 0 /\ FirstChoosing(ch, ch[i]) = i)
            => \/ \E j \in DOMAIN out : out[j] = TaggedIdea(ch[i], narrs[i])
               \/ /\ Len(out) = 5
                  /\ \A j \in DOMAIN out : \E h \in 1..(i - 1) :
                         ch[h] # 0 /\ out[j] = TaggedIdea(ch[h], narrs[h])

ExactThenFuzzy(narrs, ch, out, made) ==
    MadeFromChosen(narrs, ch, out, made) /\ ChosenAreMade(narrs, ch, out)

\* C24: in the narrative-matching pass of generate_ideas the template chosen for
\* a narrative is the one whose key equals the narrative name if there is such a
\* key, and only otherwise the first template, in catalog order, one of whose key
\* words longer than 3 characters is part of the lowercased name; the idea made
\* carries that narrative's name, score and signal count.
C24_ExactThenFuzzy ==
    ideas.done =>
        ExactThenFuzzy(ranked_narratives, ChosenOf(ranked_narratives), ideas.out,
            Len(FirstPass(ranked_narratives, 1, [ideas |-> <<>>, used |-> {}]).ideas))

\* C24 witness: a narrative whose name is a template key although a word of an
\* earlier template is part of it, and a narrative matched by a key word only,
\* have both been given their idea
C24_Witness ==
    /\ ideas.done
    /\ \E i \in DOMAIN ranked_narratives : \E j \in DOMAIN ideas.out :
           /\ ExactMatch(ranked_narratives[i].name) # 0
           /\ FuzzyMatch(Lower(ranked_narratives[i].name)) # 0
           /\ FuzzyMatch(Lower(ranked_narratives[i].name)) < ExactMatch(ranked_narratives[i].name)
           /\ ideas.out[j].tied_narrative = ranked_narratives[i].name
           /\ ideas.out[j].template = ranked_narratives[i].name
           /\ ideas.out[j].narrative_score = ranked_narratives[i].score
    /\ \E i \in DOMAIN ranked_narratives : \E j \in DOMAIN ideas.out :
           /\ ExactMatch(ranked_narratives[i].name) = 0
           /\ ideas.out[j].tied_narrative = ranked_narratives[i].name
           /\ ideas.out[j].signal_count = ranked_narratives[i].signal_count

(***************************************************************************)
(* C29.  The size of the list generate_ideas returns and its fill pass.    *)
(***************************************************************************)
\* the ideas after the first `made` ones carry score 0 and signal count 0, and no
\* narrative of the list has the name they are tied to
FilledWithZero(narrs, out, made) ==
    \A j \in (made + 1)..Len(out) :
        /\ out[j].narrative_score = 0
        /\ out[j].signal_count = 0
        /\ \A i \in DOMAIN narrs : narrs[i].name # out[j].tied_narrative

\* C29: for every ranked narrative list, the empty list included, generate_ideas
\* returns exactly 5 ideas, and every idea made by the fill pass has
\* narrative_score 0 and signal_count 0: a template whose narrative is in the
\* list has already been used by the matching pass.
C29_FiveIdeasFillZero ==
    ideas.done =>
        /\ Len(ideas.out) = 5
        /\ FilledWithZero(ranked_narratives, ideas.out,
               Len(FirstPass(ranked_narratives, 1, [ideas |-> <<>>, used |-> {}]).ideas))

\* C29 witness: the fill pass has added ideas after the matching pass made some,
\* and a narrative whose name is a template key got no idea because a narrative
\* ranked before it had taken that template by a key word
C29_Witness ==
    /\ ideas.done
    /\ Len(ideas.out) = 5
    /\ ideas.out[1].narrative_score # 0
    /\ ideas.out[5].narrative_score = 0
    /\ ideas.out[5].signal_count = 0
    /\ \E i \in DOMAIN ranked_narratives : \E j \in DOMAIN ideas.out :
           /\ ExactMatch(ranked_narratives[i].name) # 0
           /\ ideas.out[j].template = ranked_narratives[i].name
           /\ ideas.out[j].tied_narrative # ranked_narratives[i].name

(***************************************************************************)
(* C25, C26, C30.  Calls of run_pipeline on one event loop.                *)
(***************************************************************************)
\* the calls that found no fresh cache and are executing the pipeline
Executing(force) == {c \in Calls : calls[c].pc # "idle" /\ calls[c].force = force}

\* C25: the cache gates the execution of the pipeline under concurrency: when
\* several non-forced requests arrive while the cache is empty or expired, the
\* full pipeline (collectors, scoring, snapshot write) is executed once, not once
\* per request.
C25_OneExecutionPerExpiry == Cardinality(Executing(FALSE)) <= 1

\* the execution journal.saved[i] wrote under a second no other execution wrote under
OwnSecond(saved, i) ==
    \A j \in DOMAIN saved : j # i => saved[j].second # saved[i].second

\* the file of that second holds the summaries of the execution's narratives, in
\* ranked order, and the number of its ideas
HoldsRecordOf(fs, e) ==
    /\ e.second \in DOMAIN fs
    /\ fs[e.second].kind = "snapshot"
    /\ Len(fs[e.second].narratives) = Len(e.narratives)
    /\ \A k \in DOMAIN e.narratives :
           /\ fs[e.second].narratives[k].name = e.narratives[k].name
           /\ fs[e.second].narratives[k].score = e.narratives[k].score
           /\ fs[e.second].narratives[k].signal_count = e.narratives[k].signal_count
           /\ fs[e.second].narratives[k].sources = e.narratives[k].sources
           /\ fs[e.second].narratives[k].discovered = e.narratives[k].discovered
    /\ fs[e.second].idea_count = Len(e.ideas)

\* C26: two pipeline runs that write their snapshots under distinct timestamps
\* never affect each other's record: the file of each run holds exactly that
\* run's narrative summaries and idea count, in ranked order, and neither write
\* changes the other file.
C26_RunsKeepOwnRecord ==
    \A i \in DOMAIN journal.saved :
        OwnSecond(journal.saved, i) => HoldsRecordOf(disk, journal.saved[i])

\* C26 witness: two calls have written different narrative lists under different
\* seconds and both files are in the directory
C26_Witness ==
    /\ Len(journal.saved) >= 2
    /\ \E i, j \in DOMAIN journal.saved :
           /\ journal.saved[i].call = "a"
           /\ journal.saved[j].call = "b"
           /\ journal.saved[i].second # journal.saved[j].second
           /\ journal.saved[i].narratives # journal.saved[j].narratives
           /\ disk[journal.saved[i].second] # disk[journal.saved[j].second]

\* one delta for each narrative, in the order of the narratives
OneDeltaEach(narrs, ds) ==
    /\ Len(ds) = Len(narrs)
    /\ \A k \in DOMAIN narrs : ds[k].name = narrs[k].name

\* a step taken while the call c is between the results of the collectors and
\* its return
Unyielding(c) ==
    /\ calls[c].pc \in {"scored", "saved", "loaded"}
          => \A d \in Calls \ {c} : calls'[d] = calls[d]
    /\ calls[c].pc = "saved"
          => /\ disk' = disk
             /\ calls'[c].pc = "loaded"
                   => calls'[c].previous = load_previous_snapshot(calls[c].wrote)
    /\ (calls[c].pc = "loaded" /\ calls'[c].pc = "idle")
          => /\ calls'[c].outcome = "executed"
             /\ OneDeltaEach(calls[c].narratives, globals'._cache[1].deltas)

\* C30: within one execution of the pipeline the snapshot write, the load of the
\* previous snapshot and the computation of the deltas happen without yielding
\* to the event loop: no other call takes a step and no file is written between
\* a run's own write and its read of `previous`, and compute_deltas returns
\* exactly one delta per current narrative, in ranked order.
C30_WriteReadUninterrupted == [][\A c \in Calls : Unyielding(c)]_vars

\* C30 witness: a call has written, read a previous snapshot and returned two
\* deltas while the other call was waiting for its collectors
C30_Witness ==
    \E c \in Calls : \E d \in Calls \ {c} :
        /\ calls[c].outcome = "executed"
        /\ calls[c].pc = "idle"
        /\ calls[d].pc = "gather"
        /\ globals._cache # <<>>
        /\ globals._cache[1].has_previous
        /\ Len(globals._cache[1].deltas) = 2
        /\ Len(journal.saved) >= 2

(***************************************************************************)
(* C27.  One call of _gh_get.                                              *)
(***************************************************************************)
IsStatus(answer, statuses) == answer.kind = "response" /\ answer.status \in statuses

\* the answers after which the claim says the call goes on: 403, 429, or an
\* exception of the request
RateLimitedOrRaised(answer) == answer.kind = "exception" \/ IsStatus(answer, {403, 429})

\* a 200 whose body resp.json() raises on
Unparseable(answer) == IsStatus(answer, {200}) /\ ~answer.parses

\* the attempts are at most 3, and after the last answer the call has returned,
\* sleeps or is about to return as retried(answer) and the status say
GetOutcome(call, retried(_)) ==
    /\ Len(call.seen) <= 3
    /\ Len(call.seen) = call.attempt + (IF call.pc \in {"start", "get"} THEN 0 ELSE 1)
    /\ \A i \in 1..(Len(call.seen) - 1) : retried(call.seen[i])
    /\ call.pc = "sleep" => retried(call.seen[Len(call.seen)])
    /\ call.pc = "returned" =>
           LET final == call.seen[Len(call.seen)]
           IN  IF retried(final)
               THEN Len(call.seen) = 3 /\ call.result = "None"
               ELSE IF IsStatus(final, {200})
                    THEN call.result = "body"
                    ELSE call.result = "None"

RetriedAsStated(answer) == RateLimitedOrRaised(answer)

RetriedInCode(answer) == RateLimitedOrRaised(answer) \/ Unparseable(answer)

\* C27 as stated: _gh_get ends after at most 3 attempts: it returns the body on
\* the first HTTP 200, returns None at once on a status other than 200, 403 and
\* 429, goes on only after a 403, a 429 or an exception of the request, and
\* returns None when 3 attempts are used.
C27_AsStated == GetOutcome(gh_call, RetriedAsStated)

\* C27 amended: _gh_get ends after at most 3 attempts: it returns the body on
\* the first HTTP 200 whose body parses as JSON, returns None at once on a status
\* other than 200, 403 and 429, goes on after a 403, a 429, an exception of the
\* request or a 200 whose body does not parse, and returns None when 3 attempts
\* are used; every call returns.
C27_ThreeAttempts == [](GetOutcome(gh_call, RetriedInCode)) /\ <>(gh_call.pc = "returned")

\* C27 witness: a 429, then a 200 whose body does not parse, then a 200 whose body
\* is returned, after sleeps of 5 and 2 seconds
C27_Witness ==
    /\ gh_call.pc = "returned"
    /\ gh_call.result = "body"
    /\ Len(gh_call.seen) = 3
    /\ IsStatus(gh_call.seen[1], {429})
    /\ Unparseable(gh_call.seen[2])
    /\ gh_call.slept = <<5, 2>>

(***************************************************************************)
(* C28.  The semaphore of the GitHub collector.                            *)
(***************************************************************************)
\* the tasks whose request is in progress
InProgress(tasks) == {t \in DOMAIN tasks : tasks[t].pc = "get"}

\* the tasks between their first request and the end of their _gh_get: at a
\* request, or in a back-off sleep, of any attempt
InRetrySequence(tasks) == {t \in DOMAIN tasks : tasks[t].pc \in {"get", "sleep"}}

\* the permits that are neither free nor promised to a waiter that was woken
PermitsOut(sem, tasks) == 5 - sem.value - Cardinality({t \in DOMAIN tasks : tasks[t].pc = "granted"})

\* C28: at every moment at most 5 GitHub requests are in progress across all
\* discovery and probe tasks; a task holds its permit of the semaphore for its
\* whole retry sequence, the back-off sleeps included, and gives it back on every
\* exit path: the permits that are out are exactly those of the tasks in their
\* retry sequence.
C28_FivePermits ==
    /\ Cardinality(InProgress(gh_tasks)) <= 5
    /\ _sem.value \in 0..5
    /\ PermitsOut(_sem, gh_tasks) = Cardinality(InRetrySequence(gh_tasks))
    /\ \A t \in GhTasks : gh_tasks[t].pc = "waiting" <=> t \in Range(_sem.waiters)
    /\ _sem.waiters # <<>> => _sem.value = 0

\* C28 witness: no permit is free, a probe waits for one, one of the five tasks
\* inside is in the back-off sleep of its second attempt, and a discovery task
\* has returned
C28_Witness ==
    /\ _sem.value = 0
    /\ Len(_sem.waiters) = 1
    /\ Cardinality(InRetrySequence(gh_tasks)) = 5
    /\ \E t \in GhTasks : gh_tasks[t].pc = "sleep" /\ gh_tasks[t].attempt = 1
    /\ \E t \in GhTasks : gh_tasks[t].pc = "done" /\ gh_tasks[t].exit = "returned"
====
